---- MODULE Spec2Model ----
(***************************************************************************)
(* log_stat_wf: the bucketed aggregation store (live map, durable table,   *)
(* flush with conflict-resolving upsert) and the WebSocket fan-out hub.    *)
(*                                                                         *)
(* Spec     the store: AddOrUpdate, GetAll, FlushToDb (periodic and        *)
(*          shutdown), under the store's RWMutex, with a wall clock.       *)
(* SpecHub  the hub: Run's event loop, BroadcastLog, the per-client        *)
(*          ProcessMessage tasks, sendMessage and the write pump.          *)
(* SpecLife the process: lines on a connection, well-formed or not, the   *)
(*          accept loop of main and the shutdown goroutine.                *)
(* SpecQuery   QueryLogStats and QueryAggregatedStatsOptimized over a live *)
(*          map and a durable table.                                       *)
(* SpecBucket  getBucketTime as a function of instant and bucket size.     *)
(***************************************************************************)
EXTENDS Integers, Sequences, FiniteSets, TLC

VARIABLES
    now,        \* wall clock, whole seconds since the start of the first day
    entries,    \* LogStatStore.entries: key string -> LogStat
    db,         \* table log_stats: <<hostname, bucket_ts, level, logger>> -> row
    mu,         \* LogStatStore.mu: [w: holder of the write lock, r: read holders]
    pc,         \* position of every goroutine of the store
    tx,         \* per flusher: the open transaction (staged table, rows to do, errorCount)
    ret,        \* per flusher: the value FlushToDb is about to return
    snap,       \* result of the last GetAll, and whether it directly followed a flush
    hist,       \* history: calls counted per key, first instants, failures, budgets
    clients,    \* Hub.clients: the registered sessions
    broadcast,  \* Hub.broadcast: the buffered channel of raw entries
    hub,        \* position of Hub.Run: [pc, cur]
    sess,       \* per client: goroutine positions, send channel, counters
    tasks,      \* the ProcessMessage goroutines started and not yet run
    crashed,    \* a goroutine has panicked and the process is gone
    hh,         \* history of the hub: order observed, frames enqueued, refusals, drops
    fn          \* a pure function of the filter under evaluation: its inputs and its result

storeVars == <<now, entries, db, mu, pc, tx, ret, snap, hist>>
hubVars == <<clients, broadcast, hub, sess, tasks, crashed, hh>>
vars == <<storeVars, hubVars, fn>>

-----------------------------------------------------------------------------
(* Bounds of the model *)

MaxTicks == 2       \* clock advances
ClockStep == 10     \* seconds per clock advance
MaxIngests == 4     \* AddOrUpdate calls
MaxFlushes == 1     \* ticks of the periodic flush ticker

(* Program values *)

BucketSizeS == 60                   \* --bucket-size default, 1 minute
SecondsPerDay == 24 * 60 * 60
StartTime == 45                     \* appStartTime, 00:00:45 of the first day

Hosts == {"h1"}
Loggers == {"app.A", "app.B"}
Levels == {"INFO"}

Flushers == {"ticker", "signal"}
Procs == {"conn", "http", "main"} \cup Flushers

-----------------------------------------------------------------------------
(* time.Time.Format(time.RFC3339) within one day and one zone offset:      *)
(* zero-padded hh:mm:ss.  The date and offset prefix/suffix are the same   *)
(* for every instant of the model and are left out.                        *)

Pad2(n) == IF n < 10 THEN "0" \o ToString(n) ELSE ToString(n)

TimeFields(t) ==
    LET s == t % SecondsPerDay
    IN  <<s \div 3600, (s \div 60) % 60, s % 60>>

FormatRFC3339(t) ==
    LET f == TimeFields(t)
    IN  "T" \o Pad2(f[1]) \o ":" \o Pad2(f[2]) \o ":" \o Pad2(f[3]) \o "Z"

ClockValues == {StartTime + i * ClockStep : i \in 0..MaxTicks}

getBucketTime_RoundUp(ts, bucketSize) ==
    LET dayStart == (ts \div SecondsPerDay) * SecondsPerDay
    IN  dayStart + ((ts - dayStart) \div bucketSize + 1) * bucketSize

(* getBucketTime: start of the bucket of ts on the grid of ts's day *)
getBucketTime(ts, bucketSize) ==
    LET dayStart == (ts \div SecondsPerDay) * SecondsPerDay
        secondsSinceDayStart == ts - dayStart
        bucketIndex == secondsSinceDayStart \div bucketSize
    IN  dayStart + bucketIndex * bucketSize

BucketValues == {getBucketTime(t, BucketSizeS) : t \in ClockValues}

(* SQLite compares TEXT bytewise.  On the fixed-width text FormatRFC3339   *)
(* produces this is the lexicographic order of the zero-padded fields; ''  *)
(* sorts before every other text.                                          *)
FieldsOf(s) ==
    IF s = "" THEN <<>>
    ELSE TimeFields(CHOOSE t \in ClockValues \cup BucketValues : FormatRFC3339(t) = s)

TextLess(a, b) ==
    LET fa == FieldsOf(a)
        fb == FieldsOf(b)
    IN  IF fa = <<>> THEN fb # <<>>
        ELSE IF fb = <<>> THEN FALSE
        ELSE \/ fa[1] < fb[1]
             \/ fa[1] = fb[1] /\ fa[2] < fb[2]
             \/ fa[1] = fb[1] /\ fa[2] = fb[2] /\ fa[3] < fb[3]

-----------------------------------------------------------------------------
(* Keys *)

\* key := hostName + ":" + logger + ":" + level + ":" + bucketTS
MakeKey(hostName, logger, level, bucketTS) ==
    hostName \o ":" \o logger \o ":" \o level \o ":" \o bucketTS

\* the identity of a counter: (host, logger, level, bucket_start)
KeyTuples ==
    {<<h, l, v, FormatRFC3339(b)>> : h \in Hosts, l \in Loggers, v \in Levels, b \in BucketValues}

\* UNIQUE(hostname, bucket_ts, level, logger)
RowKey(stat) == <<stat.HostName, stat.BucketTS, stat.Level, stat.Logger>>

EmptyMap == [k \in {} |-> 0]

-----------------------------------------------------------------------------
(* The upsert of FlushToDb *)

UpsertN_Overwrite(oldN, newN) == newN

\* n = log_stats.n + excluded.n
UpsertN(oldN, newN) == oldN + newN

UpsertFirstSeen_TakeIncoming(old, new) == new

\* first_seen_ts = CASE ... END
UpsertFirstSeen(old, new) ==
    IF old = "" THEN new
    ELSE IF new = "" THEN old
    ELSE IF TextLess(old, new) THEN old
    ELSE new

\* INSERT ... ON CONFLICT(hostname, bucket_ts, level, logger) DO UPDATE SET ...
Upsert(table, stat) ==
    LET rk == RowKey(stat)
    IN  IF rk \in DOMAIN table
        THEN [table EXCEPT ![rk] =
                [n |-> UpsertN(@.n, stat.N),
                 bucket_duration_s |-> stat.BucketDuration_S,
                 first_seen_ts |-> UpsertFirstSeen(@.first_seen_ts, stat.FirstSeenTS)]]
        ELSE (rk :> [n |-> stat.N,
                     bucket_duration_s |-> stat.BucketDuration_S,
                     first_seen_ts |-> stat.FirstSeenTS]) @@ table

-----------------------------------------------------------------------------
(* sync.RWMutex *)

NoLock == [w |-> "none", r |-> {}]

CanLock_Unguarded(m) == TRUE

\* Lock() returns once no goroutine holds the mutex in either mode
CanLock(m) == m.w = "none" /\ m.r = {}

\* RLock() returns once no goroutine holds the write lock
CanRLock(m) == m.w = "none"

-----------------------------------------------------------------------------
(* History *)

NoTx == [db |-> EmptyMap, todo |-> {}, errorCount |-> 0]

InitHist ==
    [calls        |-> [k \in KeyTuples |-> 0],     \* AddOrUpdate calls per key
     firstIngest  |-> [k \in KeyTuples |-> ""],    \* instant of the first call per key
     liveFirst    |-> [k \in KeyTuples |-> ""],    \* instant of the first call since the map was last cleared
     live         |-> [k \in KeyTuples |-> 0],     \* AddOrUpdate calls per key since the map was last cleared
     firstKept    |-> [k \in KeyTuples |-> ""],    \* instant of the first call whose counter was committed
     ingests      |-> 0,
     flushes      |-> 0,
     dbError      |-> FALSE,                       \* some flush hit a database error
     lost         |-> [f \in Flushers |-> FALSE],  \* the flush of f skipped or dropped a counter it cleared
     malformed    |-> 0,                           \* lines that were not valid JSON
     sigTotal     |-> [k \in KeyTuples |-> 0],     \* live n per key when the signal arrived, where observed
     quiet        |-> FALSE]                       \* a flush has returned and no AddOrUpdate ran since

StoreTypeOK ==
    /\ now \in ClockValues
    /\ mu.w \in Procs \cup {"none"}
    /\ mu.r \subseteq Procs
    /\ \A k \in DOMAIN entries : entries[k].N >= 1

\* no goroutine has ended the process (os.Exit, log.Fatal)
Alive == \A p \in Procs : pc[p] # "exited"

\* the goroutines of main once the servers listen and a connection is open
InitPc ==
    [p \in Procs |-> IF p = "signal" THEN "wait"
                     ELSE IF p = "ticker" THEN "call"
                     ELSE IF p = "main" THEN "accept"
                     ELSE "idle"]

StoreInit ==
    /\ now = StartTime
    /\ entries = EmptyMap
    /\ db = EmptyMap
    /\ mu = NoLock
    /\ pc = InitPc
    /\ tx = [f \in Flushers |-> NoTx]
    /\ ret = [f \in Flushers |-> "none"]
    /\ snap = [rows |-> {}, afterFlush |-> FALSE]
    /\ hist = InitHist

-----------------------------------------------------------------------------
(* The wall clock *)

Tick ==
    /\ UNCHANGED <<hubVars, fn>>
    /\ Alive
    /\ now + ClockStep \in ClockValues
    /\ now' = now + ClockStep
    /\ UNCHANGED <<entries, db, mu, pc, tx, ret, snap, hist>>

-----------------------------------------------------------------------------
(* AddOrUpdate *)

\* s.mu.Lock()
AddOrUpdateLock(p) ==
    /\ UNCHANGED <<hubVars, fn>>
    /\ Alive
    /\ pc[p] = "idle"
    /\ hist.ingests < MaxIngests
    /\ CanLock(mu)
    /\ mu' = [mu EXCEPT !.w = p]
    /\ pc' = [pc EXCEPT ![p] = "ingest"]
    /\ UNCHANGED <<now, entries, db, tx, ret, snap, hist>>

BucketDuration_AlwaysFull(appStartTime, bucketStartTime, currentTime) == BucketSizeS

\* if s.appStartTime.After(bucketStartTime) { duration = elapsed } else { duration = bucket size }
BucketDuration(appStartTime, bucketStartTime, currentTime) ==
    IF appStartTime > bucketStartTime
    THEN currentTime - appStartTime
    ELSE BucketSizeS

NewStat_Uncounted(hostName, level, logger, currentTime) ==
    LET bucketStartTime == getBucketTime(currentTime, BucketSizeS)
    IN  [HostName |-> hostName,
         BucketTS |-> FormatRFC3339(bucketStartTime),
         BucketDuration_S |-> BucketDuration(StartTime, bucketStartTime, currentTime),
         Level |-> level,
         Logger |-> logger,
         N |-> 0,
         FirstSeenTS |-> FormatRFC3339(currentTime)]

\* the LogStat AddOrUpdate creates for a key that is not in the map
NewStat(hostName, level, logger, currentTime) ==
    LET bucketStartTime == getBucketTime(currentTime, BucketSizeS)
        duration == BucketDuration(StartTime, bucketStartTime, currentTime)
    IN  [HostName |-> hostName,
         BucketTS |-> FormatRFC3339(bucketStartTime),
         BucketDuration_S |-> duration,
         Level |-> level,
         Logger |-> logger,
         N |-> 1,
         FirstSeenTS |-> FormatRFC3339(currentTime)]

\* the map after AddOrUpdate: stat.N++ for a key it holds, else a new counter
AddOrUpdateEntries(m, hostName, level, logger, currentTime) ==
    LET bucketTS == FormatRFC3339(getBucketTime(currentTime, BucketSizeS))
        key == MakeKey(hostName, logger, level, bucketTS)
    IN  IF key \in DOMAIN m
        THEN [m EXCEPT ![key].N = @ + 1]
        ELSE (key :> NewStat(hostName, level, logger, currentTime)) @@ m

\* the body of AddOrUpdate and the deferred s.mu.Unlock()
AddOrUpdate(p, hostName, level, logger) ==
    /\ UNCHANGED <<hubVars, fn>>
    /\ Alive
    /\ pc[p] = "ingest"
    /\ LET currentTime == now
           bucketTS == FormatRFC3339(getBucketTime(currentTime, BucketSizeS))
           kt == <<hostName, logger, level, bucketTS>>
       IN  /\ entries' = AddOrUpdateEntries(entries, hostName, level, logger, currentTime)
           /\ hist' = [hist EXCEPT
                         !.calls[kt] = @ + 1,
                         !.firstIngest[kt] = IF @ = "" THEN FormatRFC3339(currentTime) ELSE @,
                         !.liveFirst[kt] = IF @ = "" THEN FormatRFC3339(currentTime) ELSE @,
                         !.live[kt] = @ + 1,
                         !.ingests = @ + 1,
                         !.quiet = FALSE]
    /\ mu' = IF mu.w = p THEN [mu EXCEPT !.w = "none"] ELSE mu
    /\ pc' = [pc EXCEPT ![p] = "idle"]
    /\ UNCHANGED <<now, db, tx, ret, snap>>

-----------------------------------------------------------------------------
(* GetAll *)

\* s.mu.RLock()
GetAllRLock(p) ==
    /\ UNCHANGED <<hubVars, fn>>
    /\ Alive
    /\ pc[p] = "idle"
    /\ CanRLock(mu)
    /\ mu' = [mu EXCEPT !.r = @ \cup {p}]
    /\ pc' = [pc EXCEPT ![p] = "getall"]
    /\ UNCHANGED <<now, entries, db, tx, ret, snap, hist>>

\* the copy loop of GetAll and the deferred s.mu.RUnlock()
GetAll(p) ==
    /\ UNCHANGED <<hubVars, fn>>
    /\ Alive
    /\ pc[p] = "getall"
    /\ snap' = [rows |-> {entries[k] : k \in DOMAIN entries},
                afterFlush |-> hist.quiet]
    /\ mu' = [mu EXCEPT !.r = @ \ {p}]
    /\ pc' = [pc EXCEPT ![p] = "idle"]
    /\ UNCHANGED <<now, entries, db, tx, ret, hist>>

-----------------------------------------------------------------------------
(* Shutdown goroutine of main: <-sigChan; listener.Close(); PrintSummary() *)

Shutdown ==
    /\ UNCHANGED <<hubVars, fn>>
    /\ Alive
    /\ pc["signal"] = "wait"
    /\ pc' = [pc EXCEPT !["signal"] = "summary"]
    /\ UNCHANGED <<now, entries, db, mu, tx, ret, snap, hist>>

\* PrintSummary reads the map under RLock and changes nothing
PrintSummary ==
    /\ UNCHANGED <<hubVars, fn>>
    /\ Alive
    /\ pc["signal"] = "summary"
    /\ CanRLock(mu)
    /\ pc' = [pc EXCEPT !["signal"] = "call"]
    /\ UNCHANGED <<now, entries, db, mu, tx, ret, snap, hist>>

-----------------------------------------------------------------------------
(* FlushToDb, one step per database call *)

\* s.mu.Lock()
FlushLock(f) ==
    /\ UNCHANGED <<hubVars, fn>>
    /\ Alive
    /\ pc[f] = "call"
    /\ f = "ticker" => hist.flushes < MaxFlushes
    /\ CanLock(mu)
    /\ mu' = [mu EXCEPT !.w = f]
    /\ pc' = [pc EXCEPT ![f] = "open"]
    /\ ret' = [ret EXCEPT ![f] = "none"]
    /\ tx' = [tx EXCEPT ![f] = NoTx]
    /\ hist' = [hist EXCEPT !.lost[f] = FALSE]
    /\ UNCHANGED <<now, entries, db, snap>>

FlushFail_KeepMap(f) ==
    /\ entries' = entries
    /\ ret' = [ret EXCEPT ![f] = "err"]
    /\ pc' = [pc EXCEPT ![f] = "ret"]
    /\ tx' = [tx EXCEPT ![f] = NoTx]
    /\ hist' = [hist EXCEPT !.dbError = TRUE]
    /\ UNCHANGED <<now, db, mu, snap>>

\* every error exit: s.entries = make(map[string]*LogStat); return err
FlushFail(f) ==
    /\ entries' = EmptyMap
    /\ ret' = [ret EXCEPT ![f] = "err"]
    /\ pc' = [pc EXCEPT ![f] = "ret"]
    /\ tx' = [tx EXCEPT ![f] = NoTx]
    /\ hist' = [hist EXCEPT !.dbError = TRUE,
                            !.lost[f] = @ \/ entries # EmptyMap,
                            !.liveFirst = [k \in KeyTuples |-> ""],
                            !.live = [k \in KeyTuples |-> 0]]
    /\ UNCHANGED <<now, db, mu, snap>>

\* sql.Open and the pragmas (a failing pragma is only logged)
FlushOpen(f, ok) ==
    /\ UNCHANGED <<hubVars, fn>>
    /\ Alive
    /\ pc[f] = "open"
    /\ IF ok
       THEN /\ pc' = [pc EXCEPT ![f] = "begin"]
            /\ UNCHANGED <<now, entries, db, mu, tx, ret, snap, hist>>
       ELSE FlushFail(f)

\* db.Begin()
FlushBegin(f, ok) ==
    /\ UNCHANGED <<hubVars, fn>>
    /\ Alive
    /\ pc[f] = "begin"
    /\ IF ok
       THEN /\ pc' = [pc EXCEPT ![f] = "prepare"]
            /\ tx' = [tx EXCEPT ![f].db = db]
            /\ UNCHANGED <<now, entries, db, mu, ret, snap, hist>>
       ELSE FlushFail(f)

\* tx.Prepare(upsertSQL); on error tx.Rollback()
FlushPrepare(f, ok) ==
    /\ UNCHANGED <<hubVars, fn>>
    /\ Alive
    /\ pc[f] = "prepare"
    /\ IF ok
       THEN /\ pc' = [pc EXCEPT ![f] = "exec"]
            /\ tx' = [tx EXCEPT ![f].todo = DOMAIN entries]
            /\ UNCHANGED <<now, entries, db, mu, ret, snap, hist>>
       ELSE FlushFail(f)

\* one iteration of: for _, stat := range s.entries { stmt.Exec(...) }
FlushExec(f, k, ok) ==
    /\ UNCHANGED <<hubVars, fn>>
    /\ Alive
    /\ pc[f] = "exec"
    /\ k \in tx[f].todo
    /\ tx' = [tx EXCEPT ![f] =
                [db |-> IF ok /\ k \in DOMAIN entries THEN Upsert(@.db, entries[k]) ELSE @.db,
                 todo |-> @.todo \ {k},
                 errorCount |-> IF ok THEN @.errorCount ELSE @.errorCount + 1]]
    /\ hist' = [hist EXCEPT !.dbError = @ \/ ~ok,
                            !.lost[f] = @ \/ ~ok]
    /\ UNCHANGED <<now, entries, db, mu, pc, ret, snap>>

\* tx.Commit(), then s.entries = make(map[string]*LogStat) and return nil
FlushCommit(f, ok) ==
    /\ UNCHANGED <<hubVars, fn>>
    /\ Alive
    /\ pc[f] = "exec"
    /\ tx[f].todo = {}
    /\ IF ok
       THEN /\ db' = tx[f].db
            /\ entries' = EmptyMap
            /\ ret' = [ret EXCEPT ![f] = "nil"]
            /\ pc' = [pc EXCEPT ![f] = "ret"]
            /\ hist' = [hist EXCEPT
                          !.firstKept = [k \in KeyTuples |->
                              IF @[k] = "" /\ <<k[1], k[4], k[3], k[2]>> \in DOMAIN tx[f].db
                              THEN hist.liveFirst[k] ELSE @[k]],
                          !.liveFirst = [k \in KeyTuples |-> ""],
                          !.live = [k \in KeyTuples |-> 0]]
            /\ UNCHANGED <<now, mu, tx, snap>>
       ELSE FlushFail(f)

\* return: the deferred s.mu.Unlock(); the shutdown goroutine then calls os.Exit(0)
FlushReturn(f) ==
    /\ UNCHANGED <<hubVars, fn>>
    /\ Alive
    /\ pc[f] = "ret"
    /\ mu' = IF mu.w = f THEN [mu EXCEPT !.w = "none"] ELSE mu
    /\ pc' = [pc EXCEPT ![f] = IF f = "signal" THEN "exited" ELSE "call"]
    /\ hist' = [hist EXCEPT !.flushes = IF f = "ticker" THEN @ + 1 ELSE @,
                            !.quiet = TRUE]
    /\ UNCHANGED <<now, entries, db, tx, ret, snap>>

-----------------------------------------------------------------------------
(* The store *)

Next ==
    \/ Tick
    \/ \E h \in Hosts, v \in Levels, l \in Loggers : AddOrUpdate("conn", h, v, l)
    \/ AddOrUpdateLock("conn")
    \/ GetAllRLock("http")
    \/ GetAll("http")
    \/ Shutdown
    \/ PrintSummary
    \/ \E f \in Flushers : FlushLock(f)
    \/ \E f \in Flushers, ok \in BOOLEAN : FlushOpen(f, ok)
    \/ \E f \in Flushers, ok \in BOOLEAN : FlushBegin(f, ok)
    \/ \E f \in Flushers, ok \in BOOLEAN : FlushPrepare(f, ok)
    \/ \E f \in Flushers, ok \in BOOLEAN : \E k \in tx[f].todo : FlushExec(f, k, ok)
    \/ \E f \in Flushers, ok \in BOOLEAN : FlushCommit(f, ok)
    \/ \E f \in Flushers : FlushReturn(f)

-----------------------------------------------------------------------------
(* Observations of the store *)

\* n of the live counter of key K (0 when the map has none)
LiveN(K) ==
    LET key == MakeKey(K[1], K[2], K[3], K[4])
    IN  IF key \in DOMAIN entries THEN entries[key].N ELSE 0

\* n of the durable row of key K (0 when the table has none)
DurableN(K) ==
    LET rk == <<K[1], K[4], K[3], K[2]>>
    IN  IF rk \in DOMAIN db THEN db[rk].n ELSE 0

Total(K) == LiveN(K) + DurableN(K)

RECURSIVE ApplyAll(_, _, _)
\* the table after upserting the counters m[k], k \in ks
ApplyAll(table, m, ks) ==
    IF ks = {} THEN table
    ELSE LET k == CHOOSE x \in ks : TRUE
         IN  ApplyAll(Upsert(table, m[k]), m, ks \ {k})

InWrite(p) == pc[p] \in {"ingest", "open", "begin", "prepare", "exec", "ret"}
InRead(p) == pc[p] = "getall"

-----------------------------------------------------------------------------
(* Claims about the store *)

\* C1: conservation across flushes.  As long as no flush has hit a database
\* error, for every key the durable n plus the live n equals the number of
\* AddOrUpdate calls made for the key.
C1_Conservation ==
    ~hist.dbError => \A K \in KeyTuples : DurableN(K) + LiveN(K) = hist.calls[K]

\* three calls, a flush, one more call: live n = 1 and durable n = 3
C1_Witness ==
    /\ ~hist.dbError
    /\ \E K \in KeyTuples : DurableN(K) = 3 /\ LiveN(K) = 1

\* C2: FlushToDb leaves the live map empty on every exit path: where it is
\* about to return (nil or an error) the map is empty, and a GetAll taken
\* after a flush returned with no AddOrUpdate in between has no rows.
C2_FlushEmpties ==
    /\ \A f \in Flushers : pc[f] = "ret" => entries = EmptyMap
    /\ snap.afterFlush => snap.rows = {}

\* a flush that failed after calls had been counted, then a GetAll
C2_Witness ==
    /\ snap.afterFlush
    /\ ret["ticker"] = "err"
    /\ \E K \in KeyTuples : hist.calls[K] > DurableN(K) + LiveN(K)

\* C3 as stated: the total n of a key never decreases, whether flushes
\* succeed or fail.
C3_TotalNeverDecreases ==
    [][\A K \in KeyTuples : Total(K)' >= Total(K)]_vars

\* C3 amended: the total n of a key decreases only at the step where a flush
\* that hit a database error clears the live map.
C3_TotalDecreasesOnlyOnDbError ==
    [][\A K \in KeyTuples :
          Total(K)' < Total(K) =>
             \E f \in Flushers :
                /\ pc[f] # "ret" /\ pc'[f] = "ret"
                /\ ret'[f] = "err" \/ tx[f].errorCount > 0]_vars

\* a flush without database error has moved counts and new ones have arrived
C3_Witness ==
    /\ ~hist.dbError
    /\ \E K \in KeyTuples : DurableN(K) > 0 /\ LiveN(K) > 0 /\ Total(K) = MaxIngests

\* C4 as stated: the persisted first_seen of a row is the instant of the very
\* first AddOrUpdate of its key.
C4_FirstSeenIsFirstIngest ==
    \A rk \in DOMAIN db :
        db[rk].first_seen_ts = hist.firstIngest[<<rk[1], rk[4], rk[3], rk[2]>>]

\* C4 amended: the persisted first_seen of a row is the instant of the first
\* AddOrUpdate of its key whose counter was committed, which is the very first
\* AddOrUpdate of the key when no flush has hit a database error.
C4_FirstSeenIsFirstKept ==
    \A rk \in DOMAIN db :
        LET K == <<rk[1], rk[4], rk[3], rk[2]>>
        IN  /\ db[rk].first_seen_ts = hist.firstKept[K]
            /\ ~hist.dbError => db[rk].first_seen_ts = hist.firstIngest[K]

\* a row written by two flushes: it has the duration of a counter created
\* one clock step after start and the first_seen of one created at start
C4_Witness ==
    \E rk \in DOMAIN db :
        /\ db[rk].first_seen_ts = FormatRFC3339(StartTime)
        /\ db[rk].bucket_duration_s = ClockStep

\* C5: the critical sections of AddOrUpdate, FlushToDb (periodic and
\* shutdown) and GetAll never overlap with a writer's, and the rows a flush
\* has staged are exactly the counters of the live map it has visited.
C5_FlushAtomic ==
    /\ \A p, q \in Procs : p # q /\ InWrite(p) => ~InWrite(q) /\ ~InRead(q)
    /\ \A f \in Flushers :
          pc[f] = "exec" /\ tx[f].errorCount = 0 =>
             tx[f].db = ApplyAll(db, entries, DOMAIN entries \ tx[f].todo)

\* the periodic flush has staged rows while the shutdown goroutine waits
\* for the lock and the connection goroutine is outside AddOrUpdate
C5_Witness ==
    /\ pc["ticker"] = "exec" /\ tx["ticker"].todo = {} /\ tx["ticker"].db # db
    /\ pc["signal"] = "call"
    /\ hist.ingests < MaxIngests

-----------------------------------------------------------------------------
(* The life of the process: lines arriving on a connection, well-formed or *)
(* not, the accept loop of main, and the shutdown goroutine.               *)

MaxLines == 2       \* well-formed lines read from the connection

\* handleJsonLogEntry on a line json.Unmarshal rejects: log.Fatalf prints the
\* line and ends the process with os.Exit(1)
ParseError(p) ==
    /\ UNCHANGED <<hubVars, fn>>
    /\ Alive
    /\ pc[p] = "idle"
    /\ pc' = [pc EXCEPT ![p] = "exited"]
    /\ hist' = [hist EXCEPT !.malformed = @ + 1]
    /\ UNCHANGED <<now, entries, db, mu, tx, ret, snap>>

\* the accept loop of main: once the listener is closed listener.Accept()
\* returns an error and log.Fatal ends the process with os.Exit(1)
AcceptError ==
    /\ UNCHANGED <<hubVars, fn>>
    /\ Alive
    /\ pc["main"] = "accept"
    /\ pc["signal"] # "wait"
    /\ pc' = [pc EXCEPT !["main"] = "exited"]
    /\ UNCHANGED <<now, entries, db, mu, tx, ret, snap, hist>>

\* Shutdown, with the total n of every key at that instant kept in the history
ShutdownObserved ==
    /\ UNCHANGED <<hubVars, fn>>
    /\ Alive
    /\ pc["signal"] = "wait"
    /\ pc' = [pc EXCEPT !["signal"] = "summary"]
    /\ hist' = [hist EXCEPT !.sigTotal = [K \in KeyTuples |-> Total(K)]]
    /\ UNCHANGED <<now, entries, db, mu, tx, ret, snap>>

LifeNext ==
    \/ Tick
    \/ hist.ingests < MaxLines /\ AddOrUpdateLock("conn")
    \/ \E h \in Hosts, v \in Levels, l \in Loggers : AddOrUpdate("conn", h, v, l)
    \/ ParseError("conn")
    \/ AcceptError
    \/ ShutdownObserved
    \/ PrintSummary
    \/ \E f \in Flushers : FlushLock(f)
    \/ \E f \in Flushers, ok \in BOOLEAN : FlushOpen(f, ok)
    \/ \E f \in Flushers, ok \in BOOLEAN : FlushBegin(f, ok)
    \/ \E f \in Flushers, ok \in BOOLEAN : FlushPrepare(f, ok)
    \/ \E f \in Flushers, ok \in BOOLEAN : \E k \in tx[f].todo : FlushExec(f, k, ok)
    \/ \E f \in Flushers, ok \in BOOLEAN : FlushCommit(f, ok)
    \/ \E f \in Flushers : FlushReturn(f)

-----------------------------------------------------------------------------
(* Claims about errors and shutdown *)

\* C26: whenever a flush is about to return after it cleared a live counter
\* that it had not applied to the durable store (open, begin, prepare,
\* per-row upsert or commit failure), it returns a non-nil error.
C26_FlushReportsLoss ==
    \A f \in Flushers : pc[f] = "ret" /\ hist.lost[f] => ret[f] = "err"

\* C27: a line that is not valid JSON is dropped: the step that handles it
\* leaves the live map and the durable store unchanged and the process running.
C27_MalformedNotFatal ==
    [][hist'.malformed > hist.malformed => entries' = entries /\ db' = db /\ Alive']_vars

\* C28: when the process has exited after a termination signal, with no
\* malformed line and no database error, every key's durable n is at least
\* the total n the key had when the signal arrived.
C28_ShutdownFlushes ==
    ~Alive /\ pc["signal"] # "wait" /\ hist.malformed = 0 /\ ~hist.dbError =>
        \A K \in KeyTuples : DurableN(K) >= hist.sigTotal[K]

-----------------------------------------------------------------------------
(* The fan-out hub *)

maxClients == 1         \* NewHub(maxClients), scaled down
BroadcastCap == 1       \* capacity of Hub.broadcast, scaled down
SendCap == 1            \* capacity of Client.send, scaled down
MaxRecords == 2         \* BroadcastLog calls
MaxPings == 1           \* ping control frames

Clients == {"c1", "c2"}
RecordLevels == {"INFO", "debug"}

-----------------------------------------------------------------------------
(* Text: Go strings are TLA+ strings; the library functions the filter     *)
(* uses are computed on them character by character.                        *)

UpperLetters == "ABCDEFGHIJKLMNOPQRSTUVWXYZ"
LowerLetters == "abcdefghijklmnopqrstuvwxyz"

\* the letter of `to` at the place ch has in `from`, or ch itself
MapLetter(ch, from, to) ==
    IF \E i \in 1..Len(from) : SubSeq(from, i, i) = ch
    THEN LET i == CHOOSE i \in 1..Len(from) : SubSeq(from, i, i) = ch
         IN  SubSeq(to, i, i)
    ELSE ch

RECURSIVE ToLower(_)
\* strings.ToLower
ToLower(s) ==
    IF s = "" THEN "" ELSE MapLetter(Head(s), UpperLetters, LowerLetters) \o ToLower(Tail(s))

RECURSIVE ToUpper(_)
\* upper-case form of an ASCII string
ToUpper(s) ==
    IF s = "" THEN "" ELSE MapLetter(Head(s), LowerLetters, UpperLetters) \o ToUpper(Tail(s))

\* strings.Index, counted from 1; 0 when substr does not occur
Index(s, substr) ==
    LET hits == {i \in 1..(Len(s) + 1) :
                    i + Len(substr) - 1 <= Len(s) /\ SubSeq(s, i, i + Len(substr) - 1) = substr}
    IN  IF hits = {} THEN 0 ELSE CHOOSE i \in hits : \A j \in hits : i <= j

\* strings.LastIndex, counted from 1; 0 when substr does not occur
LastIndex(s, substr) ==
    LET hits == {i \in 1..(Len(s) + 1) :
                    i + Len(substr) - 1 <= Len(s) /\ SubSeq(s, i, i + Len(substr) - 1) = substr}
    IN  IF hits = {} THEN 0 ELSE CHOOSE i \in hits : \A j \in hits : j <= i

\* strings.Contains
Contains(s, substr) == Index(s, substr) > 0

\* strings.EqualFold, on ASCII text
Fold(s) == ToUpper(s)

EqualFold_Exact(a, b) == a = b

EqualFold(a, b) == Fold(a) = Fold(b)

\* glob.Compile: an unclosed character class or alternative is an error
GlobCompiles(pattern) ==
    /\ Contains(pattern, "[") => Contains(pattern, "]")
    /\ Contains(pattern, "{") => Contains(pattern, "}")

RECURSIVE GlobMatch(_, _)
\* glob.Glob.Match for patterns made of literals, * and ? (no separators)
GlobMatch(pattern, s) ==
    IF pattern = "" THEN s = ""
    ELSE IF Head(pattern) = "*"
         THEN \E k \in 0..Len(s) : GlobMatch(Tail(pattern), SubSeq(s, k + 1, Len(s)))
    ELSE IF Head(pattern) = "?"
         THEN s # "" /\ GlobMatch(Tail(pattern), Tail(s))
    ELSE s # "" /\ Head(s) = Head(pattern) /\ GlobMatch(Tail(pattern), Tail(s))

\* regexp.Compile: an unclosed group is an error
RegexCompiles(expr) == Contains(expr, "(") => Contains(expr, ")")

\* the expression matches the whole of s: literals and . (any character)
RegexMatchWhole(expr, s) ==
    /\ Len(expr) = Len(s)
    /\ \A i \in 1..Len(expr) :
          SubSeq(expr, i, i) = "." \/ SubSeq(expr, i, i) = SubSeq(s, i, i)

\* regexp.Regexp.MatchString for expressions made of literals, ., a leading ^
\* and a trailing $: some part of s matches
MatchString(expr, s) ==
    LET fromStart == expr # "" /\ Head(expr) = "^"
        e1 == IF fromStart THEN Tail(expr) ELSE expr
        toEnd == e1 # "" /\ SubSeq(e1, Len(e1), Len(e1)) = "$"
        body == IF toEnd THEN SubSeq(e1, 1, Len(e1) - 1) ELSE e1
    IN  \E i \in 1..(Len(s) + 1) :
            /\ fromStart => i = 1
            /\ i + Len(body) - 1 <= Len(s)
            /\ toEnd => i + Len(body) - 1 = Len(s)
            /\ RegexMatchWhole(body, SubSeq(s, i, i + Len(body) - 1))

-----------------------------------------------------------------------------
(* Subscriptions and compiled filters *)

\* GetDefaultSubscription: INFO and above, no rate limit, no batching
DefaultLevels == <<"INFO", "WARN", "ERROR", "FATAL">>

GetDefaultSubscription ==
    [HostPatterns |-> <<>>, LoggerPatterns |-> <<>>, Levels |-> DefaultLevels,
     MessageContains |-> <<>>, MessageExcludes |-> <<>>, MessageRegex |-> "",
     StackTraceMode |-> "summary", StackTraceInclude |-> <<>>, StackTraceExclude |-> <<>>,
     MaxMessagesPerSecond |-> 0, BatchTimeoutMs |-> 0]

AllCompile(patterns) == \A i \in 1..Len(patterns) : GlobCompiles(patterns[i])

\* NewMessageFilter: (filter, nil) or (nil, err); a compiled glob or regular
\* expression is kept as its pattern and matched by GlobMatch / MatchString
NewMessageFilter(sub) ==
    IF /\ AllCompile(sub.HostPatterns)
       /\ AllCompile(sub.LoggerPatterns)
       /\ (sub.MessageRegex # "" => RegexCompiles(sub.MessageRegex))
       /\ AllCompile(sub.StackTraceInclude)
       /\ AllCompile(sub.StackTraceExclude)
    THEN [err |-> FALSE,
          filter |-> [subscription |-> sub,
                      hostGlobs |-> sub.HostPatterns,
                      loggerGlobs |-> sub.LoggerPatterns,
                      messageRegex |-> sub.MessageRegex,
                      stackInclude |-> sub.StackTraceInclude,
                      stackExclude |-> sub.StackTraceExclude]]
    ELSE [err |-> TRUE]

RECURSIVE AnyGlobMatch(_, _)
\* for _, g := range globs { if g.Match(s) { matched = true; break } }
AnyGlobMatch(globs, s) ==
    IF globs = <<>> THEN FALSE
    ELSE IF GlobMatch(Head(globs), s) THEN TRUE
    ELSE AnyGlobMatch(Tail(globs), s)

RECURSIVE AnyEqualFold(_, _)
\* for _, level := range Levels { if strings.EqualFold(level, msg.Level) ... }
AnyEqualFold(levels, level) ==
    IF levels = <<>> THEN FALSE
    ELSE IF EqualFold(Head(levels), level) THEN TRUE
    ELSE AnyEqualFold(Tail(levels), level)

RECURSIVE AnyContained(_, _)
\* for _, substr := range list { if strings.Contains(lowerMsg, strings.ToLower(substr)) ... }
AnyContained(substrs, lowerMsg) ==
    IF substrs = <<>> THEN FALSE
    ELSE IF Contains(lowerMsg, ToLower(Head(substrs))) THEN TRUE
    ELSE AnyContained(Tail(substrs), lowerMsg)

\* MessageFilter.Matches: the axes in the order of the code, each returning
\* false as soon as it rejects
Matches(f, msg) ==
    IF Len(f.hostGlobs) > 0 /\ ~AnyGlobMatch(f.hostGlobs, msg.Host) THEN FALSE
    ELSE IF Len(f.loggerGlobs) > 0 /\ ~AnyGlobMatch(f.loggerGlobs, msg.Logger) THEN FALSE
    ELSE IF Len(f.subscription.Levels) > 0
            /\ ~AnyEqualFold(f.subscription.Levels, msg.Level) THEN FALSE
    ELSE IF Len(f.subscription.MessageContains) > 0
            /\ ~AnyContained(f.subscription.MessageContains, ToLower(msg.Message)) THEN FALSE
    ELSE IF Len(f.subscription.MessageExcludes) > 0
            /\ AnyContained(f.subscription.MessageExcludes, ToLower(msg.Message)) THEN FALSE
    ELSE IF f.messageRegex # "" /\ ~MatchString(f.messageRegex, msg.Message) THEN FALSE
    ELSE TRUE

\* a nil pointer
Nil == [nil |-> TRUE]

-----------------------------------------------------------------------------
(* Stack-trace reduction *)

RECURSIVE SplitLines(_)
\* strings.Split(stackTrace, "\n")
SplitLines(s) ==
    LET i == Index(s, "\n")
    IN  IF i = 0 THEN <<s>>
        ELSE <<SubSeq(s, 1, i - 1)>> \o SplitLines(SubSeq(s, i + 1, Len(s)))

IsSpace(ch) == ch \in {" ", "\t", "\n", "\r"}

RECURSIVE TrimLeft(_)
TrimLeft(s) == IF s # "" /\ IsSpace(Head(s)) THEN TrimLeft(Tail(s)) ELSE s

RECURSIVE TrimRight(_)
TrimRight(s) ==
    IF s # "" /\ IsSpace(SubSeq(s, Len(s), Len(s)))
    THEN TrimRight(SubSeq(s, 1, Len(s) - 1)) ELSE s

\* strings.TrimSpace
TrimSpace(s) == TrimRight(TrimLeft(s))

\* strings.TrimPrefix
TrimPrefix(s, prefix) ==
    IF Len(s) >= Len(prefix) /\ SubSeq(s, 1, Len(prefix)) = prefix
    THEN SubSeq(s, Len(prefix) + 1, Len(s)) ELSE s

\* the line contains an exception header
IsHeader(trimmed) == Contains(trimmed, "Exception:") \/ Contains(trimmed, "Error:")

\* the line looks like a stack frame
IsFrame(trimmed) ==
    \/ Contains(trimmed, ".java:")
    \/ Contains(trimmed, ".kt:")
    \/ (Contains(trimmed, "(") /\ Contains(trimmed, ")"))

\* computeStackTraceHash: SHA-256 of the text, in hexadecimal
computeStackTraceHash(stackTrace) == "sha256(" \o stackTrace \o ")"

\* extractClassName: the frame without "at ", call site and method name
extractClassName(stackLine) ==
    LET line0 == TrimSpace(TrimPrefix(stackLine, "at "))
        parenIdx == Index(line0, "(") - 1
        line1 == IF parenIdx > 0 THEN SubSeq(line0, 1, parenIdx) ELSE line0
        lastDot == LastIndex(line1, ".") - 1
    IN  IF lastDot > 0 THEN SubSeq(line1, 1, lastDot) ELSE line1

RECURSIVE AnyGlobMatchEither(_, _, _)
\* for _, g := range globs { if g.Match(trimmed) || g.Match(className) ... }
AnyGlobMatchEither(globs, trimmed, className) ==
    IF globs = <<>> THEN FALSE
    ELSE IF GlobMatch(Head(globs), trimmed) \/ GlobMatch(Head(globs), className) THEN TRUE
    ELSE AnyGlobMatchEither(Tail(globs), trimmed, className)

FirstFrame_Unset(firstFrame, trimmed) == firstFrame

\* if firstFrame == "" { firstFrame = trimmed }
FirstFrame(firstFrame, trimmed) == IF firstFrame = "" THEN trimmed ELSE firstFrame

RECURSIVE FilterLines(_, _, _, _)
\* the loop of filterStackTraceFrames and the statement after it
FilterLines(f, lines, result, firstFrame) ==
    IF lines = <<>>
    THEN IF firstFrame # "" /\ Len(result) = 0 THEN <<firstFrame>> ELSE result
    ELSE LET trimmed == TrimSpace(Head(lines))
             rest == Tail(lines)
         IN  IF trimmed = "" THEN FilterLines(f, rest, result, firstFrame)
             ELSE IF IsHeader(trimmed) THEN FilterLines(f, rest, result, firstFrame)
             ELSE IF ~IsFrame(trimmed) THEN FilterLines(f, rest, result, firstFrame)
             ELSE LET first == FirstFrame(firstFrame, trimmed)
                      className == extractClassName(trimmed)
                  IN  IF /\ Len(f.stackInclude) > 0
                         /\ ~AnyGlobMatchEither(f.stackInclude, trimmed, className)
                         /\ trimmed # first
                      THEN FilterLines(f, rest, result, first)
                      ELSE IF /\ Len(f.stackExclude) > 0
                              /\ AnyGlobMatchEither(f.stackExclude, trimmed, className)
                              /\ trimmed # first
                      THEN FilterLines(f, rest, result, first)
                      ELSE FilterLines(f, rest, Append(result, trimmed), first)

\* filterStackTraceFrames
filterStackTraceFrames(f, stackTrace) == FilterLines(f, SplitLines(stackTrace), <<>>, "")

RECURSIVE CountFrames(_)
CountFrames(lines) ==
    IF lines = <<>> THEN 0
    ELSE LET trimmed == TrimSpace(Head(lines))
         IN  (IF trimmed # "" /\ IsFrame(trimmed) THEN 1 ELSE 0) + CountFrames(Tail(lines))

\* countStackFrames
countStackFrames(stackTrace) == CountFrames(SplitLines(stackTrace))

RECURSIVE FirstRelevant(_)
\* extractFirstRelevantFrame, first loop: "" when no line qualifies
FirstRelevant(lines) ==
    IF lines = <<>> THEN ""
    ELSE LET trimmed == TrimSpace(Head(lines))
         IN  IF trimmed # "" /\ ~IsHeader(trimmed) /\ IsFrame(trimmed) THEN trimmed
             ELSE FirstRelevant(Tail(lines))

RECURSIVE FirstNonEmpty(_)
\* extractFirstRelevantFrame, second loop
FirstNonEmpty(lines) ==
    IF lines = <<>> THEN "Unknown"
    ELSE IF TrimSpace(Head(lines)) # "" THEN TrimSpace(Head(lines))
    ELSE FirstNonEmpty(Tail(lines))

\* extractFirstRelevantFrame
extractFirstRelevantFrame(stackTrace) ==
    LET lines == SplitLines(stackTrace)
    IN  IF FirstRelevant(lines) # "" THEN FirstRelevant(lines) ELSE FirstNonEmpty(lines)

StackTraceSummary(stackTrace) ==
    [kind |-> "summary",
     hash |-> computeStackTraceHash(stackTrace),
     first_line |-> extractFirstRelevantFrame(stackTrace),
     frame_count |-> countStackFrames(stackTrace)]

\* ProcessStackTrace
ProcessStackTrace(f, stackTrace) ==
    IF stackTrace = "" THEN Nil
    ELSE LET mode == IF f.subscription.StackTraceMode = "" THEN "summary"
                     ELSE f.subscription.StackTraceMode
         IN  IF mode = "summary" THEN StackTraceSummary(stackTrace)
             ELSE IF mode = "filtered"
             THEN LET frames == filterStackTraceFrames(f, stackTrace)
                      totalFrames == countStackFrames(stackTrace)
                      omitted == totalFrames - Len(frames)
                  IN  [kind |-> "filtered",
                       hash |-> computeStackTraceHash(stackTrace),
                       frames |-> frames,
                       omitted |-> IF omitted < 0 THEN 0 ELSE omitted]
             ELSE StackTraceSummary(stackTrace)

AtCapacity_OffByOne(n) == n > maxClients

\* len(h.clients) >= h.maxClients
AtCapacity(n) == n >= maxClients

ChanFits_Unbounded(q, cap) == TRUE

\* a send on a buffered channel is ready when the buffer has room
ChanFits(q, cap) == Len(q) < cap

DispatchReady_Sync(cs) == \A c \in cs : ChanFits(sess[c].send, SendCap)

\* go client.ProcessMessage(message): starting a goroutine never waits
DispatchReady(cs) == TRUE

\* no function of the filter is under evaluation
NoCall == [op |-> "none"]

\* the entry the ingestion pipeline hands to BroadcastLog
RawLogEntry(level) ==
    [seq |-> 0, Host |-> "h1", Logger |-> "app.A", Level |-> level,
     Message |-> "boom", StackTrace |-> ""]

\* rate.NewLimiter(rate.Limit(r), r): a bucket of r tokens, full at the start
NewLimiter(r) == [burst |-> r, tokens |-> r]

Allow_Always(lim) == TRUE

\* rate.Limiter.Allow: a token is there to take
Allow(lim) == lim.tokens >= 1

\* NewClient: the default subscription, no rate limiter, no batch timer
NewSession ==
    [st |-> "none",         \* handleWebSocketConnection / readPump
     wp |-> "off",          \* writePump
     conn |-> FALSE,        \* the socket is open
     send |-> <<>>,
     closed |-> FALSE,      \* close(client.send) has run
     messagesQueued |-> 0,
     messagesDropped |-> 0,
     subscription |-> GetDefaultSubscription,
     filter |-> NewMessageFilter(GetDefaultSubscription).filter,
     rateLimiter |-> Nil,
     batchBuffer |-> <<>>,
     batchTimer |-> Nil,    \* Nil or the armed timer
     flushers |-> 0,        \* handleBatchTimeout goroutines waiting on the armed timer
     late |-> 0]            \* handleBatchTimeout goroutines left on a stopped timer

\* the counts kept since a session's subscription was last set
NewWindow == [matched |-> 0, allowed |-> 0, denied |-> 0, refills |-> 0]

InitHH ==
    [observed |-> 0,                             \* entries Run has received from the channel
     lastEnq  |-> [c \in Clients |-> 0],         \* position in Run's order of the last entry put in c.send
     disorder |-> {},                            \* clients whose send got an entry after a later one
     refused  |-> {},                            \* clients refused by registerClient
     offered  |-> {},                            \* clients a ProcessMessage goroutine was started for
     full     |-> [c \in Clients |-> 0],         \* sendMessage calls made while c.send held SendCap frames
     hubDrops |-> 0,                             \* BroadcastLog calls that found the channel full
     closes   |-> [c \in Clients |-> 0],         \* close(client.send) calls made on c.send
     sentClosed |-> {},                          \* clients whose closed send got a send attempt
     lost     |-> {},                            \* clients whose closed send lost a frame it held
     matched  |-> [c \in Clients |-> 0],         \* entries that passed c's filter
     carried  |-> [c \in Clients |-> 0],         \* entries put in c.send, alone or in a batch frame
     ctlDrops |-> [c \in Clients |-> 0],         \* replies to control frames that found c.send full
     win      |-> [c \in Clients |-> NewWindow], \* what happened since c's subscription was last set
     rejects  |-> [c \in Clients |-> 0],         \* subscriptions of c that were rejected
     subs     |-> 0,                             \* subscribe and update control frames handled
     records  |-> 0,
     pings    |-> 0]

HubInit ==
    /\ clients = {}
    /\ broadcast = <<>>
    /\ hub = [pc |-> "select", cur |-> "none"]
    /\ sess = [c \in Clients |-> NewSession]
    /\ tasks = {}
    /\ crashed = FALSE
    /\ hh = InitHH

\* handleWebSocketConnection: NewClient, then hub.register <- client blocks
Connect(c) ==
    /\ UNCHANGED <<storeVars, fn>>
    /\ ~crashed
    /\ sess[c].st = "none"
    /\ sess' = [sess EXCEPT ![c].st = "registering", ![c].conn = TRUE]
    /\ UNCHANGED <<clients, broadcast, hub, tasks, crashed, hh>>

\* Run: case client := <-h.register; the sender goes on to start writePump
\* and enter readPump
HubRecvRegister(c) ==
    /\ UNCHANGED <<storeVars, fn>>
    /\ ~crashed
    /\ hub.pc = "select"
    /\ sess[c].st = "registering"
    /\ hub' = [pc |-> "register", cur |-> c]
    /\ sess' = [sess EXCEPT ![c].st = "running", ![c].wp = "running"]
    /\ UNCHANGED <<clients, broadcast, tasks, crashed, hh>>

\* registerClient
registerClient ==
    /\ UNCHANGED <<storeVars, fn>>
    /\ ~crashed
    /\ hub.pc = "register"
    /\ LET client == hub.cur
       IN  IF AtCapacity(Cardinality(clients))
           THEN /\ sess' = [sess EXCEPT ![client].closed = TRUE, ![client].conn = FALSE]
                /\ hh' = [hh EXCEPT !.refused = @ \cup {client}, !.closes[client] = @ + 1]
                /\ UNCHANGED clients
           ELSE /\ clients' = clients \cup {client}
                /\ UNCHANGED <<sess, hh>>
    /\ hub' = [pc |-> "select", cur |-> "none"]
    /\ UNCHANGED <<broadcast, tasks, crashed>>

\* readPump: ReadJSON fails, the loop breaks, the deferred hub.unregister <- c blocks
ReadFail(c) ==
    /\ UNCHANGED <<storeVars, fn>>
    /\ ~crashed
    /\ sess[c].st = "running"
    /\ sess' = [sess EXCEPT ![c].st = "unregistering"]
    /\ UNCHANGED <<clients, broadcast, hub, tasks, crashed, hh>>

\* Run: case client := <-h.unregister; the sender closes its socket and ends
HubRecvUnregister(c) ==
    /\ UNCHANGED <<storeVars, fn>>
    /\ ~crashed
    /\ hub.pc = "select"
    /\ sess[c].st = "unregistering"
    /\ hub' = [pc |-> "unregister", cur |-> c]
    /\ sess' = [sess EXCEPT ![c].st = "gone", ![c].conn = FALSE]
    /\ UNCHANGED <<clients, broadcast, tasks, crashed, hh>>

IsRegistered_Always(client) == TRUE

\* if _, ok := h.clients[client]; ok
IsRegistered(client) == client \in clients

unregisterClient_KeepOpen ==
    /\ UNCHANGED <<storeVars, fn>>
    /\ ~crashed
    /\ hub.pc = "unregister"
    /\ clients' = clients \ {hub.cur}
    /\ hub' = [pc |-> "select", cur |-> "none"]
    /\ UNCHANGED <<broadcast, tasks, sess, crashed, hh>>

\* unregisterClient
unregisterClient ==
    /\ UNCHANGED <<storeVars, fn>>
    /\ ~crashed
    /\ hub.pc = "unregister"
    /\ LET client == hub.cur
       IN  IF IsRegistered(client)
           THEN /\ clients' = clients \ {client}
                /\ hh' = [hh EXCEPT !.closes[client] = @ + 1]
                /\ IF sess[client].closed
                   THEN crashed' = TRUE /\ UNCHANGED sess     \* close of a closed channel
                   ELSE sess' = [sess EXCEPT ![client].closed = TRUE] /\ UNCHANGED crashed
           ELSE UNCHANGED <<clients, sess, crashed, hh>>
    /\ hub' = [pc |-> "select", cur |-> "none"]
    /\ UNCHANGED <<broadcast, tasks>>

\* BroadcastLog: select { case h.broadcast <- entry: default: drop }
BroadcastEntry(level) ==
    /\ UNCHANGED <<storeVars, fn>>
    /\ ~crashed
    /\ LET entry == RawLogEntry(level)
       IN  IF ChanFits(broadcast, BroadcastCap)
           THEN /\ broadcast' = Append(broadcast, entry)
                /\ hh' = [hh EXCEPT !.records = @ + 1]
           ELSE /\ UNCHANGED broadcast
                /\ hh' = [hh EXCEPT !.records = @ + 1, !.hubDrops = @ + 1]
    /\ UNCHANGED <<clients, hub, sess, tasks, crashed>>

\* BroadcastLog, as often as the scenario of the hub has entries
BroadcastLog(level) ==
    /\ hh.records < MaxRecords
    /\ BroadcastEntry(level)

\* Run: case message := <-h.broadcast
HubRecvBroadcast ==
    /\ UNCHANGED <<storeVars, fn>>
    /\ ~crashed
    /\ hub.pc = "select"
    /\ broadcast # <<>>
    /\ hub' = [pc |-> "broadcast", cur |-> [Head(broadcast) EXCEPT !.seq = hh.observed + 1]]
    /\ broadcast' = Tail(broadcast)
    /\ hh' = [hh EXCEPT !.observed = @ + 1]
    /\ UNCHANGED <<clients, sess, tasks, crashed>>

\* broadcastMessage: one goroutine per registered client
broadcastMessage ==
    /\ UNCHANGED <<storeVars, fn>>
    /\ ~crashed
    /\ hub.pc = "broadcast"
    /\ DispatchReady(clients)
    /\ tasks' = tasks \cup {<<c, hub.cur>> : c \in clients}
    /\ hh' = [hh EXCEPT !.offered = @ \cup clients]
    /\ hub' = [pc |-> "select", cur |-> "none"]
    /\ UNCHANGED <<clients, broadcast, sess, crashed>>

\* entries a frame carries: one for a log frame, for a batch frame the
\* entries flushBatch took from the buffer to build it
RecordsIn(data) ==
    IF data.type = "log" THEN 1 ELSE IF data.type = "batch" THEN data.taken ELSE 0

\* sendMessage on the session record s of client c, with history h:
\* select { case c.send <- data: messagesQueued++  default: messagesDropped++ }
\* A send on a closed channel panics.
SendOn(c, s, data, h) ==
    LET wasFull == Len(s.send) >= SendCap
        h1 == [h EXCEPT !.full[c] = IF wasFull THEN @ + 1 ELSE @,
                        !.pings = IF data.type = "pong" THEN @ + 1 ELSE @]
    IN  IF s.closed
        THEN /\ crashed' = TRUE
             /\ hh' = [h1 EXCEPT !.sentClosed = @ \cup {c}]
             /\ UNCHANGED sess
        ELSE IF ChanFits(s.send, SendCap)
        THEN /\ sess' = [sess EXCEPT ![c] = [s EXCEPT !.send = Append(@, data),
                                                      !.messagesQueued = @ + 1]]
             /\ hh' = [h1 EXCEPT !.lastEnq[c] = IF data.type = "log" THEN data.seq ELSE @,
                                 !.disorder = IF data.type = "log" /\ data.seq < h.lastEnq[c]
                                              THEN @ \cup {c} ELSE @,
                                 !.carried[c] = @ + RecordsIn(data)]
             /\ UNCHANGED crashed
        ELSE /\ sess' = [sess EXCEPT ![c] = [s EXCEPT !.messagesDropped = @ + 1]]
             /\ hh' = [h1 EXCEPT !.ctlDrops[c] = IF data.type \in {"log", "batch"} THEN @ ELSE @ + 1]
             /\ UNCHANGED crashed

\* sendMessage
sendMessage(c, data) == SendOn(c, sess[c], data, hh)

\* ProcessMessage: filter, rate limit, transform and serialize, then batch or send
ProcessMessage(c, raw) ==
    /\ UNCHANGED <<storeVars, fn>>
    /\ ~crashed
    /\ <<c, raw>> \in tasks
    /\ tasks' = tasks \ {<<c, raw>>}
    /\ LET s == sess[c]
           h1 == [hh EXCEPT !.matched[c] = @ + 1, !.win[c].matched = @ + 1]
       IN  IF s.filter # Nil /\ ~Matches(s.filter, raw)
           THEN UNCHANGED <<sess, hh, crashed>>
           ELSE IF s.rateLimiter # Nil /\ ~Allow(s.rateLimiter)
           THEN /\ sess' = [sess EXCEPT ![c].messagesDropped = @ + 1]
                /\ hh' = [h1 EXCEPT !.win[c].denied = @ + 1]
                /\ UNCHANGED crashed
           ELSE LET s1 == IF s.rateLimiter # Nil
                          THEN [s EXCEPT !.rateLimiter.tokens = @ - 1] ELSE s
                    h2 == [h1 EXCEPT !.win[c].allowed = @ + 1]
                    data == [type |-> "log", seq |-> raw.seq]
                IN  IF s.subscription.BatchTimeoutMs > 0
                    THEN \* addToBatch
                         /\ sess' = [sess EXCEPT ![c] = [s1 EXCEPT !.batchBuffer = Append(@, data)]]
                         /\ hh' = h2
                         /\ UNCHANGED crashed
                    ELSE SendOn(c, s1, data, h2)
    /\ UNCHANGED <<clients, broadcast, hub>>

\* readPump: a ping control frame, handleClientMessage -> sendPong
Ping(c) ==
    /\ UNCHANGED <<storeVars, fn>>
    /\ ~crashed
    /\ sess[c].st = "running"
    /\ sess[c].conn
    /\ hh.pings < MaxPings
    /\ sendMessage(c, [type |-> "pong", seq |-> 0])
    /\ UNCHANGED <<clients, broadcast, hub, tasks>>

\* writePump: message, ok := <-c.send with ok, then conn.WriteMessage
WriteFrame(c, ok) ==
    /\ UNCHANGED <<storeVars, fn>>
    /\ ~crashed
    /\ sess[c].wp = "running"
    /\ sess[c].send # <<>>
    /\ ok => sess[c].conn
    /\ sess' = IF ok
               THEN [sess EXCEPT ![c].send = Tail(@), ![c].messagesQueued = @ - 1]
               ELSE [sess EXCEPT ![c].send = Tail(@), ![c].wp = "done", ![c].conn = FALSE]
    /\ hh' = IF ~ok /\ sess[c].closed THEN [hh EXCEPT !.lost = @ \cup {c}] ELSE hh
    /\ UNCHANGED <<clients, broadcast, hub, tasks, crashed>>

\* writePump: the channel is closed and drained; write the close frame and return
WriteClose(c) ==
    /\ UNCHANGED <<storeVars, fn>>
    /\ ~crashed
    /\ sess[c].wp = "running"
    /\ sess[c].send = <<>>
    /\ sess[c].closed
    /\ sess' = [sess EXCEPT ![c].wp = "done", ![c].conn = FALSE]
    /\ UNCHANGED <<clients, broadcast, hub, tasks, crashed, hh>>

\* GetStats
GetStats ==
    [connected_clients |-> Cardinality(clients),
     max_clients |-> maxClients,
     broadcast_buffer |-> Len(broadcast)]

HubNext ==
    \/ \E c \in Clients : Connect(c)
    \/ \E c \in Clients : HubRecvRegister(c)
    \/ registerClient
    \/ \E c \in Clients : ReadFail(c)
    \/ \E c \in Clients : HubRecvUnregister(c)
    \/ unregisterClient
    \/ \E level \in RecordLevels : BroadcastLog(level)
    \/ HubRecvBroadcast
    \/ broadcastMessage
    \/ \E t \in tasks : ProcessMessage(t[1], t[2])
    \/ \E c \in Clients : Ping(c)
    \/ \E c \in Clients, ok \in BOOLEAN : WriteFrame(c, ok)
    \/ \E c \in Clients : WriteClose(c)

HubTypeOK ==
    /\ clients \subseteq Clients
    /\ Len(broadcast) <= BroadcastCap
    /\ hub.pc \in {"select", "register", "unregister", "broadcast"}

-----------------------------------------------------------------------------
(* The hub with stalled subscribers: c1 is registered, its send channel is *)
(* full (a pong frame) and its write pump is blocked on the socket for     *)
(* good; it stays connected.  Other clients come, are refused and go.      *)

StalledInit ==
    /\ StoreInit
    /\ clients = {"c1"}
    /\ broadcast = <<>>
    /\ hub = [pc |-> "select", cur |-> "none"]
    /\ sess = [c \in Clients |->
                 IF c = "c1"
                 THEN [NewSession EXCEPT !.st = "running", !.wp = "running", !.conn = TRUE,
                                         !.send = <<[type |-> "pong", seq |-> 0]>>,
                                         !.messagesQueued = 1]
                 ELSE NewSession]
    /\ tasks = {}
    /\ crashed = FALSE
    /\ hh = [InitHH EXCEPT !.pings = 1]
    /\ fn = NoCall

\* readPump of a session whose socket has been closed
ReadFailClosed(c) ==
    /\ ~sess[c].conn
    /\ ReadFail(c)

StalledNext ==
    \/ \E c \in Clients : Connect(c)
    \/ \E c \in Clients : HubRecvRegister(c)
    \/ registerClient
    \/ \E c \in Clients : ReadFailClosed(c)
    \/ \E c \in Clients : HubRecvUnregister(c)
    \/ unregisterClient
    \/ \E level \in RecordLevels : BroadcastLog(level)
    \/ HubRecvBroadcast
    \/ broadcastMessage
    \/ \E t \in tasks : ProcessMessage(t[1], t[2])
    \/ \E c \in Clients : WriteClose(c)

\* Run is a goroutine of its own and its select takes a ready case; a
\* readPump whose socket is closed gets its read error
StalledFairness ==
    /\ \A c \in Clients : WF_vars(HubRecvRegister(c))
    /\ \A c \in Clients : WF_vars(HubRecvUnregister(c))
    /\ \A c \in Clients : WF_vars(ReadFailClosed(c))
    /\ WF_vars(registerClient)
    /\ WF_vars(unregisterClient)
    /\ WF_vars(HubRecvBroadcast)
    /\ WF_vars(broadcastMessage)

-----------------------------------------------------------------------------
(* One session at work: c1 is registered and running; its client sets      *)
(* subscriptions (rate limit, batching, a pattern that does not compile,   *)
(* data that does not decode) while entries are broadcast.                 *)

MaxRate == 2            \* max_rate of the rate-limited subscription
SessRecords == 3        \* BroadcastLog calls
MaxSubs == 2            \* subscribe and update control frames

RateSub == [GetDefaultSubscription EXCEPT !.MaxMessagesPerSecond = MaxRate]

BatchSub == [GetDefaultSubscription EXCEPT !.BatchTimeoutMs = 50]

\* a subscription whose host pattern does not compile
BadSub ==
    [GetDefaultSubscription EXCEPT !.HostPatterns = <<"[a">>, !.Levels = <<"ERROR">>,
                                   !.MaxMessagesPerSecond = 1, !.BatchTimeoutMs = 20]

\* the data of a subscribe or update frame: a subscription, or bytes that
\* json.Unmarshal rejects
SubscribeData ==
    {[ok |-> FALSE]} \cup
    {[ok |-> TRUE, sub |-> sub] : sub \in {RateSub, BatchSub, BadSub}}

UpdateSubscription_AssignFirst(s, sub) ==
    LET nf == NewMessageFilter(sub)
    IN  IF nf.err THEN [err |-> TRUE, s |-> [s EXCEPT !.subscription = sub]]
        ELSE [err |-> FALSE, s |-> [s EXCEPT !.subscription = sub, !.filter = nf.filter]]

\* UpdateSubscription on the session record s: (error, session afterwards)
UpdateSubscription(s, sub) ==
    LET nf == NewMessageFilter(sub)
    IN  IF nf.err THEN [err |-> TRUE, s |-> s]
        ELSE LET s1 == [s EXCEPT !.subscription = sub,
                                 !.filter = nf.filter,
                                 !.rateLimiter = IF sub.MaxMessagesPerSecond > 0
                                                 THEN NewLimiter(sub.MaxMessagesPerSecond)
                                                 ELSE Nil]
                 s2 == IF sub.BatchTimeoutMs > 0
                       THEN IF s1.batchTimer = Nil
                            THEN \* time.NewTimer; go c.handleBatchTimeout()
                                 [s1 EXCEPT !.batchTimer = [armed |-> TRUE], !.flushers = @ + 1]
                            ELSE s1
                       ELSE IF s1.batchTimer # Nil
                            THEN \* batchTimer.Stop(); the goroutines stay on the stopped timer
                                 [s1 EXCEPT !.batchTimer = Nil, !.late = @ + s1.flushers,
                                            !.flushers = 0]
                            ELSE s1
             IN  [err |-> FALSE, s |-> s2]

\* sendError / sendAck: the frame handed to sendMessage
ErrorFrame(code) == [type |-> "error", code |-> code]
AckFrame(message) == [type |-> "ack", message |-> message]

\* readPump: a subscribe or update control frame, handleClientMessage
Subscribe(c, data) ==
    /\ UNCHANGED <<storeVars, fn>>
    /\ ~crashed
    /\ sess[c].st = "running"
    /\ sess[c].conn
    /\ hh.subs < MaxSubs
    /\ LET h1 == [hh EXCEPT !.subs = @ + 1]
       IN  IF ~data.ok
           THEN SendOn(c, sess[c], ErrorFrame("invalid_subscription"),
                       [h1 EXCEPT !.rejects[c] = @ + 1])
           ELSE LET r == UpdateSubscription(sess[c], data.sub)
                IN  IF r.err
                    THEN SendOn(c, r.s, ErrorFrame("filter_error"),
                                [h1 EXCEPT !.rejects[c] = @ + 1])
                    ELSE SendOn(c, r.s, AckFrame("subscribed"),
                                [h1 EXCEPT !.win[c] = NewWindow])
    /\ UNCHANGED <<clients, broadcast, hub, tasks>>

\* json.Unmarshal(data, &serverMsg) with Data declared interface{}: the
\* decoder stores a generic map in Data
JsonUnmarshal(data) ==
    [Type |-> data.type,
     Data |-> [gotype |-> "map[string]interface {}", seq |-> data.seq]]

\* logMsg, ok := serverMsg.Data.(*LogMessage)
IsLogMessage(v) == v.gotype = "*LogMessage"

RECURSIVE ParsedMessages(_)
\* flushBatch: the messages of the batch frame
ParsedMessages(buffer) ==
    IF buffer = <<>> THEN <<>>
    ELSE LET serverMsg == JsonUnmarshal(Head(buffer))
         IN  IF IsLogMessage(serverMsg.Data)
             THEN <<[seq |-> serverMsg.Data.seq]>> \o ParsedMessages(Tail(buffer))
             ELSE ParsedMessages(Tail(buffer))

\* the batch frame flushBatch builds from the buffer (taken: the number of
\* buffered entries it was built from)
BatchFrame(buffer) ==
    LET messages == ParsedMessages(buffer)
    IN  [type |-> "batch", messages |-> messages, count |-> Len(messages),
         taken |-> Len(buffer)]

\* flushBatch on the session record s of client c
flushBatch(c, s, h) ==
    IF Len(s.batchBuffer) = 0
    THEN /\ sess' = [sess EXCEPT ![c] = s]
         /\ hh' = h
         /\ UNCHANGED crashed
    ELSE SendOn(c, [s EXCEPT !.batchBuffer = <<>>], BatchFrame(s.batchBuffer), h)

\* handleBatchTimeout: the armed timer fires; flushBatch, then Reset
BatchTick(c) ==
    /\ UNCHANGED <<storeVars, fn>>
    /\ ~crashed
    /\ sess[c].batchTimer # Nil
    /\ sess[c].flushers > 0
    /\ flushBatch(c, sess[c], hh)
    /\ UNCHANGED <<clients, broadcast, hub, tasks>>

\* handleBatchTimeout of a goroutine left on a stopped timer that had fired
\* before Stop: flushBatch, then Reset of the current timer if batching is
\* on again, else return
LateTick(c) ==
    /\ UNCHANGED <<storeVars, fn>>
    /\ ~crashed
    /\ sess[c].late > 0
    /\ flushBatch(c,
                  IF sess[c].subscription.BatchTimeoutMs > 0
                  THEN [sess[c] EXCEPT !.late = @ - 1, !.flushers = @ + 1]
                  ELSE [sess[c] EXCEPT !.late = @ - 1],
                  hh)
    /\ UNCHANGED <<clients, broadcast, hub, tasks>>

\* time passes: the limiter gains a token, up to its burst
Refill(c) ==
    /\ UNCHANGED <<storeVars, fn>>
    /\ ~crashed
    /\ sess[c].rateLimiter # Nil
    /\ sess[c].rateLimiter.tokens < sess[c].rateLimiter.burst
    /\ sess' = [sess EXCEPT ![c].rateLimiter.tokens = @ + 1]
    /\ hh' = [hh EXCEPT !.win[c].refills = @ + 1]
    /\ UNCHANGED <<clients, broadcast, hub, tasks, crashed>>

\* BroadcastLog in the session scenario
OfferLog(level) ==
    /\ hh.records < SessRecords
    /\ BroadcastEntry(level)

SessionInit ==
    /\ StoreInit
    /\ clients = {"c1"}
    /\ broadcast = <<>>
    /\ hub = [pc |-> "select", cur |-> "none"]
    /\ sess = [c \in Clients |->
                 IF c = "c1"
                 THEN [NewSession EXCEPT !.st = "running", !.wp = "running", !.conn = TRUE]
                 ELSE NewSession]
    /\ tasks = {}
    /\ crashed = FALSE
    /\ hh = InitHH
    /\ fn = NoCall

SessionNext ==
    \/ \E c \in Clients, data \in SubscribeData : Subscribe(c, data)
    \/ \E level \in RecordLevels : OfferLog(level)
    \/ HubRecvBroadcast
    \/ broadcastMessage
    \/ \E t \in tasks : ProcessMessage(t[1], t[2])
    \/ \E c \in Clients : BatchTick(c)
    \/ \E c \in Clients : LateTick(c)
    \/ \E c \in Clients : Refill(c)
    \/ \E c \in Clients, ok \in BOOLEAN : WriteFrame(c, ok)

-----------------------------------------------------------------------------
(* Claims about the hub *)

\* C6: the session set never holds more than maxClients sessions; a session
\* refused by registerClient is not in the set and no ProcessMessage is ever
\* started for it.
C6_HubCap ==
    /\ Cardinality(clients) <= maxClients
    /\ hh.refused \cap clients = {}
    /\ hh.refused \cap hh.offered = {}
    /\ \A t \in tasks : t[1] \notin hh.refused

\* a session has been refused while the set was full, and an entry was dispatched
C6_Witness ==
    /\ hh.refused # {}
    /\ Cardinality(clients) = maxClients
    /\ tasks # {}

C8_DeliveryOrder == hh.disorder = {}

\* C9: with the subscribers stalled, BroadcastLog can always return, Run is
\* never held up inside the handling of a broadcast, and every pending
\* register and unregister request is eventually received and handled.
C9_NeverBlocked ==
    /\ [](hh.records < MaxRecords => ENABLED (\E level \in RecordLevels : BroadcastLog(level)))
    /\ [](hub.pc = "broadcast" => ENABLED broadcastMessage)
    /\ \A c \in Clients :
          /\ (sess[c].st = "registering") ~> (sess[c].st = "running" /\ hub.pc = "select")
          /\ (sess[c].st = "unregistering") ~> (sess[c].st = "gone" /\ hub.pc = "select")

\* a client was refused and has gone while c1's full channel made an entry drop
C9_Witness ==
    /\ sess["c2"].st = "gone" /\ "c2" \in hh.refused
    /\ Len(sess["c1"].send) = SendCap /\ sess["c1"].messagesDropped > 0

\* C12: once a session's send channel has been closed, no step of the session
\* attempts a send on it: a ProcessMessage started before the unregister and
\* run after it, or a reply of the read pump, finds the session inert.
C12_ClosedInert == hh.sentClosed = {}

\* C13: the send channel of a session is never closed twice; it has been
\* closed once Run has handled the session's unregister request; and
\* unregisterClient for a session that is not in the set changes nothing.
C13_ClosedOnce ==
    /\ [](\A c \in Clients : hh.closes[c] <= 1)
    /\ [](\A c \in Clients :
            sess[c].st = "gone" /\ ~(hub.pc = "unregister" /\ hub.cur = c)
               => sess[c].closed /\ hh.closes[c] = 1)
    /\ [][hub.pc = "unregister" /\ hub'.pc = "select" /\ hub.cur \notin clients =>
            /\ clients' = clients
            /\ sess' = sess
            /\ hh'.closes = hh.closes
            /\ ~crashed']_vars

\* a refused session and an accepted one have both had their unregister handled
C13_Witness ==
    \E a, b \in Clients :
        /\ a \in hh.refused /\ b \notin hh.refused
        /\ sess[a].st = "gone" /\ sess[b].st = "gone"
        /\ hub.pc = "select"
        /\ hh.closes[a] = 1 /\ hh.closes[b] = 1

\* C14: once unregister has closed a session's send channel, the write pump
\* ends only after it has written every frame the channel held.
C14_Draining ==
    \A c \in Clients :
        sess[c].closed /\ sess[c].wp = "done" =>
            c \notin hh.lost /\ sess[c].send = <<>>

\* C10: every BroadcastLog that finds the channel full adds one to a counter
\* that GetStats reports.
C10_DropsCounted ==
    [][hh'.hubDrops = hh.hubDrops + 1 =>
          \E fld \in DOMAIN GetStats : GetStats'[fld] = GetStats[fld] + 1]_vars

-----------------------------------------------------------------------------
(* Claims about a session *)

SessionFields(s) ==
    <<s.subscription, s.filter, s.rateLimiter, s.batchBuffer, s.batchTimer, s.flushers, s.late>>

Min(a, b) == IF a <= b THEN a ELSE b

\* C11: for every session, the entries that passed its filter are the entries
\* put in its send channel (alone or in a batch frame), those waiting in the
\* batch buffer, and those its drop counter accounts for (the counter less
\* the replies to control frames it counted).
C11_EveryDiscardCounted ==
    \A c \in Clients :
        hh.matched[c] = hh.carried[c] + Len(sess[c].batchBuffer)
                          + (sess[c].messagesDropped - hh.ctlDrops[c])

\* C15: handling a subscribe or update frame whose subscription does not
\* compile or does not decode leaves the session's subscription, filter, rate
\* limiter and batching state as they were, and hands an error frame
\* (filter_error or invalid_subscription) to the send channel.
C15_RejectedChangesNothing ==
    [][\A c \in Clients :
          hh'.rejects[c] = hh.rejects[c] + 1 =>
             /\ SessionFields(sess'[c]) = SessionFields(sess[c])
             /\ Len(sess[c].send) < SendCap =>
                   \E code \in {"filter_error", "invalid_subscription"} :
                       sess'[c].send = Append(sess[c].send, [type |-> "error", code |-> code])
             /\ Len(sess[c].send) >= SendCap =>
                   /\ sess'[c].send = sess[c].send
                   /\ sess'[c].messagesDropped = sess[c].messagesDropped + 1]_vars

\* a session that batches, with entries waiting, has had a subscription whose
\* pattern does not compile rejected and holds the error frame
C15_Witness ==
    \E c \in Clients :
        /\ hh.rejects[c] > 0
        /\ sess[c].subscription = BatchSub /\ sess[c].batchBuffer # <<>>
        /\ sess[c].send = <<[type |-> "error", code |-> "filter_error"]>>

C18_BatchContents ==
    [][\A c \in Clients :
          sess[c].batchBuffer # <<>> /\ sess'[c].batchBuffer = <<>>
              /\ Len(sess[c].send) < SendCap =>
             /\ Len(sess'[c].send) = Len(sess[c].send) + 1
             /\ LET frame == sess'[c].send[Len(sess'[c].send)]
                IN  /\ frame.type = "batch"
                    /\ frame.count = Len(sess[c].batchBuffer)
                    /\ Len(frame.messages) = Len(sess[c].batchBuffer)
                    /\ \A i \in 1..Len(frame.messages) :
                          frame.messages[i].seq = sess[c].batchBuffer[i].seq]_vars

-----------------------------------------------------------------------------
(* The filter on its own: one call of Matches or of ProcessStackTrace, its *)
(* arguments drawn from the subscriptions, entries and stack traces below. *)

HostPatternLists == {<<>>, <<"prod-*">>, <<"dev-?", "h1">>}
LoggerPatternLists == {<<>>, <<"com.*">>}
LevelLists == {<<>>, <<"ERROR">>, <<"INFO", "ERROR">>, <<"error">>}
ContainsLists == {<<>>, <<"TIMEOUT", "ok">>}
ExcludesLists == {<<>>, <<"healthcheck">>, <<"Boom">>}
RegexChoices == {"", "^b..m$", "o."}

MatchSubs ==
    {[GetDefaultSubscription EXCEPT !.HostPatterns = hp, !.LoggerPatterns = lp, !.Levels = lv,
                                    !.MessageContains = mc, !.MessageExcludes = me,
                                    !.MessageRegex = re] :
        hp \in HostPatternLists, lp \in LoggerPatternLists, lv \in LevelLists,
        mc \in ContainsLists, me \in ExcludesLists, re \in RegexChoices}

MatchEntries ==
    {[seq |-> 0, Host |-> h, Logger |-> l, Level |-> lv, Message |-> m, StackTrace |-> ""] :
        h \in {"prod-1", "dev-22"}, l \in {"com.a.B", "timer"},
        lv \in {"INFO", "ERROR", "debug"},
        m \in {"healthcheck ok", "boom", "Timeout BOOM"}}

StackTraces ==
    {"at a.b.C.m(C.java:1)\nat x.y.Z.n(Z.java:2)",
     "java.lang.RuntimeException: failed\n  at a.b.C.m(C.java:1)\n\tat x.y.Z.n(Z.kt:2)\n",
     "java.lang.RuntimeException: failed (code 3)\nat a.b.C.m(C.java:1)",
     "RuntimeException: boom",
     "panic in worker",
     "at a.b.C.m(C.java:1)\n\nat q.R.s(R.java:9)\nat a.b.C.m(C.java:1)"}

StackSubs ==
    {[GetDefaultSubscription EXCEPT !.StackTraceMode = mode, !.StackTraceInclude = inc,
                                    !.StackTraceExclude = exc] :
        mode \in {"filtered", "summary", ""},
        inc \in {<<>>, <<"x.y.*">>, <<"nomatch">>},
        exc \in {<<>>, <<"a.b.*">>, <<"*">>}}

FilterCalls ==
    {[op |-> "Matches", sub |-> sub, msg |-> msg, done |-> FALSE, result |-> FALSE] :
        sub \in MatchSubs, msg \in MatchEntries}
    \cup
    {[op |-> "ProcessStackTrace", sub |-> sub, stackTrace |-> st, done |-> FALSE, result |-> Nil] :
        sub \in StackSubs, st \in StackTraces}

FilterInit ==
    /\ StoreInit
    /\ HubInit
    /\ fn \in FilterCalls

\* NewMessageFilter(sub), then filter.Matches(msg)
CallMatches ==
    /\ fn.op = "Matches" /\ ~fn.done
    /\ fn' = [fn EXCEPT !.done = TRUE,
                        !.result = Matches(NewMessageFilter(fn.sub).filter, fn.msg)]
    /\ UNCHANGED <<storeVars, hubVars>>

\* NewMessageFilter(sub), then filter.ProcessStackTrace(stackTrace)
CallProcessStackTrace ==
    /\ fn.op = "ProcessStackTrace" /\ ~fn.done
    /\ fn' = [fn EXCEPT !.done = TRUE,
                        !.result = ProcessStackTrace(NewMessageFilter(fn.sub).filter,
                                                     fn.stackTrace)]
    /\ UNCHANGED <<storeVars, hubVars>>

FilterNext ==
    \/ CallMatches
    \/ CallProcessStackTrace

-----------------------------------------------------------------------------
(* Claims about the filter *)

\* C16: Matches is true exactly when every non-empty axis accepts the entry:
\* hosts and loggers on some glob, levels on case-insensitive membership,
\* message_contains on some case-insensitive substring, message_excludes when
\* no substring occurs, message_regex on a partial match.
C16_MatchSemantics ==
    fn.op = "Matches" /\ fn.done =>
        LET sub == fn.sub
            r == fn.msg
            HostOK(p) == GlobMatch(p, r.Host)
            LoggerOK(p) == GlobMatch(p, r.Logger)
            LevelOK(lv) == ToLower(lv) = ToLower(r.Level)
            HasText(x) == Contains(ToLower(r.Message), ToLower(x))
        IN  /\ fn.result <=>
                  /\ sub.HostPatterns = <<>>
                        \/ \E i \in 1..Len(sub.HostPatterns) : HostOK(sub.HostPatterns[i])
                  /\ sub.LoggerPatterns = <<>>
                        \/ \E i \in 1..Len(sub.LoggerPatterns) : LoggerOK(sub.LoggerPatterns[i])
                  /\ sub.Levels = <<>>
                        \/ \E i \in 1..Len(sub.Levels) : LevelOK(sub.Levels[i])
                  /\ sub.MessageContains = <<>>
                        \/ \E i \in 1..Len(sub.MessageContains) : HasText(sub.MessageContains[i])
                  /\ \A i \in 1..Len(sub.MessageExcludes) : ~HasText(sub.MessageExcludes[i])
                  /\ sub.MessageRegex = "" \/ MatchString(sub.MessageRegex, r.Message)
            /\ sub.Levels = <<"ERROR">> /\ r.Level = "INFO" => ~fn.result
            /\ sub.MessageExcludes = <<"healthcheck">> /\ r.Message = "healthcheck ok" => ~fn.result
            /\ sub.Levels = <<"error">> /\ r.Level = "ERROR" /\ r.Message = "boom"
                  /\ sub.HostPatterns = <<>> /\ sub.LoggerPatterns = <<>>
                  /\ sub.MessageContains = <<>> /\ sub.MessageExcludes = <<"healthcheck">>
                  /\ sub.MessageRegex = "" => fn.result

\* the entry 'healthcheck ok' at INFO was rejected by levels = [INFO, ERROR]
\* with message_excludes = [healthcheck]
C16_Witness ==
    /\ fn.op = "Matches" /\ fn.done /\ ~fn.result
    /\ fn.sub.Levels = <<"INFO", "ERROR">> /\ fn.sub.MessageExcludes = <<"healthcheck">>
    /\ fn.sub.HostPatterns = <<>> /\ fn.sub.LoggerPatterns = <<>>
    /\ fn.sub.MessageContains = <<>> /\ fn.sub.MessageRegex = ""
    /\ fn.msg.Level = "INFO" /\ fn.msg.Message = "healthcheck ok"

\* a filtered-mode call has returned
FilteredDone ==
    fn.op = "ProcessStackTrace" /\ fn.done /\ fn.sub.StackTraceMode = "filtered"

\* the trimmed lines of the trace that are frame-shaped and are not headers
FrameLinesOf(stackTrace) ==
    LET lines == SplitLines(stackTrace)
        Keep(line) == TrimSpace(line) # "" /\ IsFrame(TrimSpace(line)) /\ ~IsHeader(TrimSpace(line))
        kept == SelectSeq(lines, Keep)
    IN  [i \in 1..Len(kept) |-> TrimSpace(kept[i])]

\* C19: in filtered mode every non-empty stack trace yields a non-empty frames list.
C19_AntiSilence ==
    FilteredDone /\ fn.stackTrace # "" => Len(fn.result.frames) > 0

\* C19, amended: in filtered mode every stack trace that has a frame-shaped
\* line which is not an exception header yields a non-empty frames list,
\* whatever the include and exclude patterns.
C19_AntiSilenceWithFrame ==
    FilteredDone /\ FrameLinesOf(fn.stackTrace) # <<>> => Len(fn.result.frames) > 0

\* every frame but the first was excluded, none was included, and the first
\* frame came back
C19_Witness ==
    /\ FilteredDone
    /\ fn.sub.StackTraceInclude = <<"nomatch">> /\ fn.sub.StackTraceExclude = <<"*">>
    /\ Len(FrameLinesOf(fn.stackTrace)) > 1
    /\ fn.result.frames = <<FrameLinesOf(fn.stackTrace)[1]>>

RECURSIVE IsSubsequence(_, _)
\* a is b with some items left out
IsSubsequence(a, b) ==
    IF a = <<>> THEN TRUE
    ELSE IF b = <<>> THEN FALSE
    ELSE IF Head(a) = Head(b) THEN IsSubsequence(Tail(a), Tail(b))
    ELSE IsSubsequence(a, Tail(b))

\* C20: in filtered mode the first frame-shaped line is among the frames, the
\* frames keep source order, header lines are not counted as frames, omitted
\* is the number of frame-shaped lines less the number of frames returned,
\* never negative, and is 0 when there are no include and no exclude patterns.
C20_FilteredAccounting ==
    FilteredDone =>
        LET all == FrameLinesOf(fn.stackTrace)
            res == fn.result
        IN  /\ all # <<>> => \E i \in 1..Len(res.frames) : res.frames[i] = all[1]
            /\ IsSubsequence(res.frames, all)
            /\ res.omitted = Len(all) - Len(res.frames)
            /\ res.omitted >= 0
            /\ fn.sub.StackTraceInclude = <<>> /\ fn.sub.StackTraceExclude = <<>> => res.omitted = 0

-----------------------------------------------------------------------------
(* The query layer: QueryLogStats and QueryAggregatedStatsOptimized over   *)
(* the live map and the durable table.  A range over a Go map visits the   *)
(* keys in an order the runtime picks, and rows that tie under ORDER BY    *)
(* come in an order the database picks: each function is the set of the    *)
(* outcomes it can have.  The surrogate id of a row is not carried.        *)

MaxLive == 2        \* counters in the live map when a query runs
MaxDurable == 2     \* rows in the durable table when a query runs
MaxLimit == 2       \* largest max_results asked for

\* strings.HasPrefix
HasPrefix(s, prefix) == Len(s) >= Len(prefix) /\ SubSeq(s, 1, Len(prefix)) = prefix

\* strings.HasSuffix
HasSuffix(s, suffix) ==
    Len(s) >= Len(suffix) /\ SubSeq(s, Len(s) - Len(suffix) + 1, Len(s)) = suffix

\* strings.TrimSuffix
TrimSuffix(s, suffix) ==
    IF HasSuffix(s, suffix) THEN SubSeq(s, 1, Len(s) - Len(suffix)) ELSE s

RECURSIVE ReplaceAll(_, _, _)
\* strings.ReplaceAll, old not empty
ReplaceAll(s, old, new) ==
    IF s = "" THEN ""
    ELSE IF HasPrefix(s, old)
         THEN new \o ReplaceAll(SubSeq(s, Len(old) + 1, Len(s)), old, new)
    ELSE Head(s) \o ReplaceAll(Tail(s), old, new)

\* regexToLike: the LIKE pattern sent to SQLite for a logger expression
regexToLike(pattern) ==
    IF pattern = "" THEN "%"
    ELSE LET hasStart == HasPrefix(pattern, "^")
             hasEnd == HasSuffix(pattern, "$")
             p1 == IF hasStart THEN TrimPrefix(pattern, "^") ELSE pattern
             p2 == IF hasEnd THEN TrimSuffix(p1, "$") ELSE p1
             p3 == ReplaceAll(p2, ".*", "%")
             p4 == ReplaceAll(p3, "\\.", ".")
         IN  IF ~hasStart /\ ~hasEnd THEN "%" \o p4 \o "%"
             ELSE IF hasStart /\ ~hasEnd
                  THEN (IF ~HasSuffix(p4, "%") THEN p4 \o "%" ELSE p4)
             ELSE IF ~hasStart /\ hasEnd
                  THEN (IF ~HasPrefix(p4, "%") THEN "%" \o p4 ELSE p4)
             ELSE p4

RECURSIVE LikeMatch(_, _)
\* SQLite's LIKE: % is any text, _ any character, ASCII letters fold
LikeMatch(pattern, s) ==
    IF pattern = "" THEN s = ""
    ELSE IF Head(pattern) = "%"
         THEN \E k \in 0..Len(s) : LikeMatch(Tail(pattern), SubSeq(s, k + 1, Len(s)))
    ELSE IF Head(pattern) = "_"
         THEN s # "" /\ LikeMatch(Tail(pattern), Tail(s))
    ELSE s # "" /\ ToUpper(Head(s)) = ToUpper(Head(pattern))
              /\ LikeMatch(Tail(pattern), Tail(s))

\* an instant of a filter is [unix |-> seconds], or Nil for the zero time.Time
IsZero(t) == t = Nil

\* time.Parse(time.RFC3339, s) of a text FormatRFC3339 produced
ParseRFC3339(s) == CHOOSE t \in ClockValues \cup BucketValues : FormatRFC3339(t) = s

\* the orders in which a range over a map with key set S can visit the keys
RangeOrders(S) ==
    {o \in [1..Cardinality(S) -> S] : \A i, j \in 1..Cardinality(S) : o[i] = o[j] => i = j}

\* ORDER BY bucket_ts DESC over the row keys S: ties in any order
OrderByBucketDesc(S) ==
    {o \in RangeOrders(S) : \A i, j \in 1..Len(o) : i < j => ~TextLess(o[i][2], o[j][2])}

\* the LogStat rows.Scan fills from the row with key rk
ScanStat(rk) ==
    [HostName |-> rk[1],
     BucketTS |-> rk[2],
     BucketDuration_S |-> db[rk].bucket_duration_s,
     Level |-> rk[3],
     Logger |-> rk[4],
     N |-> db[rk].n,
     FirstSeenTS |-> db[rk].first_seen_ts]

\* the WHERE clause both database queries build from the filter
SqlWhere(filter, rk) ==
    /\ filter.Level # "" => rk[3] = filter.Level
    /\ filter.LoggerRegex # "" => LikeMatch(regexToLike(filter.LoggerRegex), rk[4])
    /\ ~IsZero(filter.StartTime) => ~TextLess(rk[2], FormatRFC3339(filter.StartTime.unix))
    /\ ~IsZero(filter.EndTime) => ~TextLess(FormatRFC3339(filter.EndTime.unix), rk[2])

\* filtered = filtered[:MaxResults] when MaxResults > 0 and the list is longer
Limit(list, MaxResults) ==
    IF MaxResults > 0 /\ Len(list) > MaxResults THEN SubSeq(list, 1, MaxResults) ELSE list

\* queryDatabaseWithFilter: an error, or the selected rows in order, LIMITed
queryDatabaseWithFilter(filter) ==
    {[stats |-> <<>>, err |-> "err"]}
    \cup
    {[stats |-> Limit([i \in 1..Len(o) |-> ScanStat(o[i])], filter.MaxResults), err |-> "nil"] :
        o \in OrderByBucketDesc({rk \in DOMAIN db : SqlWhere(filter, rk)})}

\* the in-process filter of QueryLogStats
PassesFilter(filter, stat) ==
    /\ filter.Level # "" => stat.Level = filter.Level
    /\ filter.LoggerRegex # "" => MatchString(filter.LoggerRegex, stat.Logger)
    /\ ~IsZero(filter.StartTime) => ~(ParseRFC3339(stat.BucketTS) < filter.StartTime.unix)
    /\ ~IsZero(filter.EndTime) => ~(ParseRFC3339(stat.BucketTS) > filter.EndTime.unix)

\* QueryLogStats: every (stats, err) the call can return, with what the
\* database read returned (dbErr: "nil", "err", or "none" when not asked)
QueryLogStats(filter) ==
    IF filter.LoggerRegex # "" /\ ~RegexCompiles(filter.LoggerRegex)
    THEN {[stats |-> <<>>, err |-> "err", dbErr |-> "none"]}
    ELSE LET Keep(stat) == PassesFilter(filter, stat)
             live == IF filter.IncludeMemory
                     THEN {[i \in 1..Len(o) |-> entries[o[i]]] : o \in RangeOrders(DOMAIN entries)}
                     ELSE {<<>>}
             read == IF filter.IncludeDB
                     THEN queryDatabaseWithFilter(filter)
                     ELSE {[stats |-> <<>>, err |-> "none"]}
         IN  {[stats |-> Limit(SelectSeq(allStats \o (IF r.err = "nil" THEN r.stats ELSE <<>>), Keep),
                               filter.MaxResults),
               err |-> "nil",
               dbErr |-> r.err] : allStats \in live, r \in read}

\* key := HostName + ":" + BucketTS + ":" + Level
GroupKey(x) == x.HostName \o ":" \o x.BucketTS \o ":" \o x.Level

\* the smaller of two first-seen texts, an empty incoming one never taken
MinFirstSeen(existing, incoming) ==
    IF incoming # "" /\ (existing = "" \/ TextLess(incoming, existing))
    THEN incoming
    ELSE existing

RECURSIVE AggregateInto(_, _)
\* the loop of aggregateStats over the rest of the list
AggregateInto(aggregateMap, stats) ==
    IF stats = <<>> THEN aggregateMap
    ELSE LET stat == Head(stats)
             key == GroupKey(stat)
         IN  AggregateInto(
                 IF key \in DOMAIN aggregateMap
                 THEN [aggregateMap EXCEPT ![key] =
                         [@ EXCEPT !.TotalCount = @ + stat.N,
                                   !.LoggerCount = @ + 1,
                                   !.FirstSeenTS = MinFirstSeen(@, stat.FirstSeenTS)]]
                 ELSE (key :> [HostName |-> stat.HostName,
                               BucketTS |-> stat.BucketTS,
                               Level |-> stat.Level,
                               TotalCount |-> stat.N,
                               LoggerCount |-> 1,
                               FirstSeenTS |-> stat.FirstSeenTS]) @@ aggregateMap,
                 Tail(stats))

\* aggregateStats: the groups, in each order the final range can take
aggregateStats(stats) ==
    LET aggregateMap == AggregateInto(EmptyMap, stats)
    IN  {[i \in 1..Len(o) |-> aggregateMap[o[i]]] : o \in RangeOrders(DOMAIN aggregateMap)}

RECURSIVE SumN(_)
\* SUM(n) over the rows with keys in S
SumN(S) ==
    IF S = {} THEN 0
    ELSE LET rk == CHOOSE x \in S : TRUE IN db[rk].n + SumN(S \ {rk})

\* MIN(first_seen_ts) over the rows with keys in S: the least text, '' included
SqlMinFirstSeen(S) ==
    LET texts == {db[rk].first_seen_ts : rk \in S}
    IN  CHOOSE x \in texts : \A y \in texts : ~TextLess(y, x)

\* queryAggregatedFromDB: an error, or one row per (hostname, bucket_ts, level)
\* of the selected rows, ordered, cut to MaxResults
queryAggregatedFromDB(filter) ==
    LET sel == {rk \in DOMAIN db : SqlWhere(filter, rk)}
        groups == {<<rk[1], rk[2], rk[3]>> : rk \in sel}
        Members(g) == {rk \in sel : <<rk[1], rk[2], rk[3]>> = g}
        Row(g) == [HostName |-> g[1],
                   BucketTS |-> g[2],
                   Level |-> g[3],
                   TotalCount |-> SumN(Members(g)),
                   LoggerCount |-> Cardinality({rk[4] : rk \in Members(g)}),
                   FirstSeenTS |-> SqlMinFirstSeen(Members(g))]
    IN  {[aggs |-> <<>>, err |-> "err"]}
        \cup
        {[aggs |-> Limit([i \in 1..Len(o) |-> Row(o[i])], filter.MaxResults), err |-> "nil"] :
            o \in OrderByBucketDesc(groups)}

RECURSIVE MergeInto(_, _)
\* the loop of mergeAggregates over the rest of the list
MergeInto(aggregateMap, aggregates) ==
    IF aggregates = <<>> THEN aggregateMap
    ELSE LET agg == Head(aggregates)
             key == GroupKey(agg)
         IN  MergeInto(
                 IF key \in DOMAIN aggregateMap
                 THEN [aggregateMap EXCEPT ![key] =
                         [@ EXCEPT !.TotalCount = @ + agg.TotalCount,
                                   !.LoggerCount = @ + agg.LoggerCount,
                                   !.FirstSeenTS = MinFirstSeen(@, agg.FirstSeenTS)]]
                 ELSE (key :> agg) @@ aggregateMap,
                 Tail(aggregates))

\* mergeAggregates: the merged groups, in each order the final range can take
mergeAggregates(aggregates) ==
    LET aggregateMap == MergeInto(EmptyMap, aggregates)
    IN  {[i \in 1..Len(o) |-> aggregateMap[o[i]]] : o \in RangeOrders(DOMAIN aggregateMap)}

\* QueryAggregatedStatsOptimized: every (aggs, err) the call can return, with
\* what the database read returned
QueryAggregatedStatsOptimized(filter) ==
    LET memoryFilter == [filter EXCEPT !.MaxResults = 0, !.IncludeMemory = TRUE,
                                       !.IncludeDB = FALSE]
        memory == IF filter.IncludeMemory
                  THEN QueryLogStats(memoryFilter)
                  ELSE {[stats |-> <<>>, err |-> "nil", dbErr |-> "none"]}
        read == IF filter.IncludeDB
                THEN queryAggregatedFromDB(filter)
                ELSE {[aggs |-> <<>>, err |-> "none"]}
    IN  UNION {
            IF m.err # "nil"
            THEN {[aggs |-> <<>>, err |-> "err", dbErr |-> "none"]}
            ELSE {[aggs |-> merged, err |-> "nil", dbErr |-> r.err] :
                     merged \in UNION {mergeAggregates(memoryAgg \o (IF r.err = "nil" THEN r.aggs ELSE <<>>)) :
                                          memoryAgg \in aggregateStats(m.stats)}}
            : m \in memory, r \in read}

-----------------------------------------------------------------------------
(* Query scenario: a live map and a durable table the store can be in, and *)
(* one call of a query function.                                            *)

\* the last clock instant that falls into bucket b
LastInstantIn(b) ==
    CHOOSE t \in ClockValues :
        /\ getBucketTime(t, BucketSizeS) = b
        /\ \A u \in ClockValues : getBucketTime(u, BucketSizeS) = b => u <= t

\* the first clock instant that falls into bucket b
FirstInstantIn(b) ==
    CHOOSE t \in ClockValues :
        /\ getBucketTime(t, BucketSizeS) = b
        /\ \A u \in ClockValues : getBucketTime(u, BucketSizeS) = b => t <= u

\* live maps: up to MaxLive counters, each as AddOrUpdate created it
LiveMaps ==
    LET choices == {<<h, v, l, b>> : h \in Hosts, v \in Levels, l \in Loggers, b \in BucketValues}
        KeyOf(c) == MakeKey(c[1], c[3], c[2], FormatRFC3339(c[4]))
    IN  {[key \in {KeyOf(c) : c \in S} |->
            LET c == CHOOSE x \in S : KeyOf(x) = key
            IN  NewStat(c[1], c[2], c[3], LastInstantIn(c[4]))] :
         S \in {T \in SUBSET choices : Cardinality(T) <= MaxLive}}

\* durable tables: up to MaxDurable rows, each the sum of two calls, with the
\* first_seen a flush wrote, or the column default '' of a historical row
DurableTables ==
    LET choices == {<<h, FormatRFC3339(b), v, l>> : h \in Hosts, b \in BucketValues,
                                                     v \in Levels, l \in Loggers}
        Row(rk, historical) ==
            [n |-> 2,
             bucket_duration_s |-> BucketSizeS,
             first_seen_ts |-> IF historical THEN ""
                               ELSE FormatRFC3339(FirstInstantIn(ParseRFC3339(rk[2])))]
    IN  UNION {{[rk \in S |-> Row(rk, historical[rk])] : historical \in [S -> BOOLEAN]} :
                  S \in {T \in SUBSET choices : Cardinality(T) <= MaxDurable}}

\* (StartTime, EndTime) of a filter: not set, from the second bucket on, up
\* to the first bucket
TimeRanges ==
    {<<Nil, Nil>>, <<[unix |-> BucketSizeS], Nil>>, <<Nil, [unix |-> 0]>>}

QueryFilters ==
    {[Level |-> level, LoggerRegex |-> re, StartTime |-> range[1], EndTime |-> range[2],
      MaxResults |-> mr, IncludeMemory |-> inc[1], IncludeDB |-> inc[2]] :
        level \in {"", "INFO"},
        re \in {"", "B$", "("},
        range \in TimeRanges,
        mr \in 0..MaxLimit,
        inc \in {<<TRUE, FALSE>>, <<FALSE, TRUE>>, <<TRUE, TRUE>>}}

QueryCalls ==
    {[op |-> op, filter |-> filter, done |-> FALSE, result |-> Nil] :
        op \in {"QueryLogStats", "QueryAggregatedStatsOptimized"}, filter \in QueryFilters}

QueryInit ==
    /\ now = StartTime + MaxTicks * ClockStep
    /\ entries \in LiveMaps
    /\ db \in DurableTables
    /\ mu = NoLock
    /\ pc = InitPc
    /\ tx = [f \in Flushers |-> NoTx]
    /\ ret = [f \in Flushers |-> "none"]
    /\ snap = [rows |-> {}, afterFlush |-> FALSE]
    /\ hist = InitHist
    /\ HubInit
    /\ fn \in QueryCalls

\* store.QueryLogStats(filter), called by the HTTP handler
CallQueryLogStats ==
    /\ fn.op = "QueryLogStats" /\ ~fn.done
    /\ CanRLock(mu)
    /\ \E r \in QueryLogStats(fn.filter) : fn' = [fn EXCEPT !.done = TRUE, !.result = r]
    /\ UNCHANGED <<storeVars, hubVars>>

\* store.QueryAggregatedStatsOptimized(filter), called by the HTTP handler
CallQueryAggregated ==
    /\ fn.op = "QueryAggregatedStatsOptimized" /\ ~fn.done
    /\ CanRLock(mu)
    /\ \E r \in QueryAggregatedStatsOptimized(fn.filter) :
          fn' = [fn EXCEPT !.done = TRUE, !.result = r]
    /\ UNCHANGED <<storeVars, hubVars>>

QueryNext ==
    \/ CallQueryLogStats
    \/ CallQueryAggregated

-----------------------------------------------------------------------------
(* Claims about the query layer *)

\* QueryLogStats has returned a result
QueryReturned == fn.op = "QueryLogStats" /\ fn.done /\ fn.result.err = "nil"

\* QueryAggregatedStatsOptimized has returned a result
AggregateReturned ==
    fn.op = "QueryAggregatedStatsOptimized" /\ fn.done /\ fn.result.err = "nil"

\* no row comes before a row of a later bucket
BucketDescending(rows) ==
    \A i, j \in 1..Len(rows) : i < j => ~TextLess(rows[i].BucketTS, rows[j].BucketTS)

\* the items of a list
Range(list) == {list[i] : i \in 1..Len(list)}

\* the live rows that match the filter, when the filter includes the live side
MatchingLive(filter) ==
    IF filter.IncludeMemory
    THEN {entries[k] : k \in {x \in DOMAIN entries : PassesFilter(filter, entries[x])}}
    ELSE {}

\* the durable rows that match the filter, when the filter includes the durable side
MatchingDurable(filter) ==
    IF filter.IncludeDB
    THEN {ScanStat(rk) : rk \in {x \in DOMAIN db : SqlWhere(filter, x)}}
    ELSE {}

\* the group (host, bucket_start, level) of a row
GroupOf(x) == <<x.HostName, x.BucketTS, x.Level>>

\* C21: the rows returned by Query and by Aggregate are ordered by
\* bucket_start descending, for every combination of include_live and
\* include_durable.
C21_QueryOrdering ==
    /\ QueryReturned => BucketDescending(fn.result.stats)
    /\ AggregateReturned => BucketDescending(fn.result.aggs)

\* C22: with max_results positive and the database read succeeding, Query and
\* Aggregate return at most max_results rows, and no row is returned while a
\* matching row (a matching group) of a later bucket is left out.
C22_MaxResults ==
    LET filter == fn.filter
        matching == MatchingLive(filter) \cup MatchingDurable(filter)
    IN  /\ QueryReturned /\ filter.MaxResults > 0 /\ fn.result.dbErr # "err" =>
              /\ Len(fn.result.stats) <= filter.MaxResults
              /\ \A r \in Range(fn.result.stats), m \in matching \ Range(fn.result.stats) :
                     ~TextLess(r.BucketTS, m.BucketTS)
        /\ AggregateReturned /\ filter.MaxResults > 0 /\ fn.result.dbErr # "err" =>
              LET returned == {GroupOf(a) : a \in Range(fn.result.aggs)}
              IN  /\ Len(fn.result.aggs) <= filter.MaxResults
                  /\ \A g \in returned, m \in {GroupOf(x) : x \in matching} \ returned :
                         ~TextLess(g[2], m[2])

RECURSIVE SumOfN(_)
\* the sum of n over a set of rows
SumOfN(rows) ==
    IF rows = {} THEN 0
    ELSE LET r == CHOOSE x \in rows : TRUE IN r.N + SumOfN(rows \ {r})

\* C23: without max_results and with the database read succeeding, every
\* group Aggregate returns has unique_loggers equal to the number of distinct
\* loggers among the matching live and durable rows of the group, and
\* total_n equal to the sum of their n.
C23_AggregateLoggerCount ==
    AggregateReturned /\ fn.filter.MaxResults = 0 /\ fn.result.dbErr # "err" =>
        \A a \in Range(fn.result.aggs) :
            LET rows == {x \in MatchingLive(fn.filter) \cup MatchingDurable(fn.filter) :
                            GroupOf(x) = GroupOf(a)}
            IN  /\ a.LoggerCount = Cardinality({x.Logger : x \in rows})
                /\ a.TotalCount = SumOfN(rows)

\* C24: without max_results and with the database read succeeding, every
\* group Aggregate returns has first_seen equal to the least non-empty
\* first_seen of the matching live and durable rows of the group (empty when
\* every row's is empty).
C24_AggregateFirstSeen ==
    AggregateReturned /\ fn.filter.MaxResults = 0 /\ fn.result.dbErr # "err" =>
        \A a \in Range(fn.result.aggs) :
            LET rows == {x \in MatchingLive(fn.filter) \cup MatchingDurable(fn.filter) :
                            GroupOf(x) = GroupOf(a)}
                seen == {x.FirstSeenTS : x \in rows} \ {""}
            IN  IF seen = {} THEN a.FirstSeenTS = ""
                ELSE /\ a.FirstSeenTS \in seen
                     /\ \A s \in seen : ~TextLess(s, a.FirstSeenTS)

\* C25: when the database read of a Query with include_live and
\* include_durable fails, the result holds matching live rows only (all of
\* them without max_results) and the call returns an error.
C25_QueryReportsDbError ==
    /\ fn.op = "QueryLogStats" /\ fn.done
    /\ fn.filter.IncludeMemory /\ fn.filter.IncludeDB
    /\ fn.result.dbErr = "err"
    => /\ Range(fn.result.stats) \subseteq MatchingLive(fn.filter)
       /\ fn.filter.MaxResults = 0 => Range(fn.result.stats) = MatchingLive(fn.filter)
       /\ fn.result.err # "nil"

-----------------------------------------------------------------------------
(* getBucketTime as a function: instants of several days, every bucket size *)
(* main accepts, and the function applied to its own result.                *)

MaxDay == 1         \* days after the first one

\* validSizes of main: 1m, 5m, 10m, 15m, 20m, 30m, 60m, in seconds
BucketSizes == {minutes * 60 : minutes \in {1, 5, 10, 15, 20, 30, 60}}

\* instants at and around bucket boundaries, seconds since the first midnight
Instants ==
    {d * SecondsPerDay + h * 3600 + mi * 60 + s :
        d \in 0..MaxDay, h \in {0, 13, 23}, mi \in {0, 4, 5, 7, 29, 30, 59}, s \in {0, 42, 59}}

BucketCalls ==
    {[op |-> "getBucketTime", ts |-> t, bucketSize |-> size,
      done |-> FALSE, result |-> 0, twice |-> FALSE, again |-> 0] :
        t \in Instants, size \in BucketSizes}

BucketInit ==
    /\ StoreInit
    /\ HubInit
    /\ fn \in BucketCalls

\* bucketStartTime := getBucketTime(currentTime, s.bucketSize)
CallGetBucketTime ==
    /\ fn.op = "getBucketTime" /\ ~fn.done
    /\ fn' = [fn EXCEPT !.done = TRUE, !.result = getBucketTime(fn.ts, fn.bucketSize)]
    /\ UNCHANGED <<storeVars, hubVars>>

\* getBucketTime applied to the bucket start it returned
CallGetBucketTimeAgain ==
    /\ fn.op = "getBucketTime" /\ fn.done /\ ~fn.twice
    /\ fn' = [fn EXCEPT !.twice = TRUE, !.again = getBucketTime(fn.result, fn.bucketSize)]
    /\ UNCHANGED <<storeVars, hubVars>>

BucketNext ==
    \/ CallGetBucketTime
    \/ CallGetBucketTimeAgain

\* C29: for every instant t and every bucket size of 1, 5, 10, 15, 20, 30 or
\* 60 minutes, getBucketTime(getBucketTime(t, size), size) = getBucketTime(t, size).
C29_BucketIdempotent ==
    fn.op = "getBucketTime" /\ fn.twice => fn.again = fn.result

\* 13:07:42 with 5-minute buckets: the bucket start 13:05:00 is its own bucket start
C29_Witness ==
    /\ fn.op = "getBucketTime" /\ fn.twice
    /\ FormatRFC3339(fn.ts) = "T13:07:42Z" /\ fn.bucketSize = 5 * 60
    /\ fn.result # fn.ts
    /\ FormatRFC3339(fn.again) = "T13:05:00Z"

\* C30: for every instant t and every allowed bucket size, b =
\* getBucketTime(t, size) satisfies b <= t < b + size, b lies a whole number
\* of sizes after the midnight that starts t's day, and 13:07:42 with size
\* 5 minutes gives 13:05:00 of the same day.
C30_BucketContainsInstant ==
    fn.op = "getBucketTime" /\ fn.done =>
        LET t == fn.ts
            b == fn.result
            midnight == t - (t % SecondsPerDay)
        IN  /\ b <= t /\ t < b + fn.bucketSize
            /\ b >= midnight
            /\ (b - midnight) % fn.bucketSize = 0
            /\ FormatRFC3339(t) = "T13:07:42Z" /\ fn.bucketSize = 5 * 60 =>
                   FormatRFC3339(b) = "T13:05:00Z" /\ b \div SecondsPerDay = t \div SecondsPerDay

\* 23:59:59 of the second day with 60-minute buckets: the bucket starts at
\* 23:00:00 of that day
C30_Witness ==
    /\ fn.op = "getBucketTime" /\ fn.done /\ ~fn.twice
    /\ fn.ts = MaxDay * SecondsPerDay + 23 * 3600 + 59 * 60 + 59
    /\ fn.bucketSize = 60 * 60
    /\ FormatRFC3339(fn.result) = "T23:00:00Z"
    /\ fn.result \div SecondsPerDay = MaxDay

-----------------------------------------------------------------------------
(* Duration of the counters created in the first bucket *)

\* the counters the step adds to the live map
Created == DOMAIN entries' \ DOMAIN entries

\* C31 as stated: only the first counter created in the bucket that began
\* before the process started may carry a duration other than the bucket
\* size; every counter created after it carries the full bucket size.
C31_ShortOnlyOnce ==
    [][\A key \in Created :
          hist.ingests > 0 => entries'[key].BucketDuration_S = BucketSizeS]_vars

\* C31 amended: every counter created in the bucket that began before the
\* process started carries the seconds elapsed since the start (between 0 and
\* the bucket size); every counter created in a later bucket carries the
\* bucket size.
C31_ShortInFirstBucket ==
    [][\A key \in Created :
          LET stat == entries'[key]
          IN  IF TextLess(stat.BucketTS, FormatRFC3339(StartTime))
              THEN /\ stat.BucketDuration_S = now - StartTime
                   /\ stat.BucketDuration_S \in 0..BucketSizeS
              ELSE stat.BucketDuration_S = BucketSizeS]_vars

\* two live counters of the first bucket, both short, the second created
\* after a clock tick
C31_Witness ==
    \E k1, k2 \in DOMAIN entries :
        /\ k1 # k2
        /\ entries[k1].BucketDuration_S < entries[k2].BucketDuration_S
        /\ entries[k2].BucketDuration_S < BucketSizeS

-----------------------------------------------------------------------------
(* Membership of the live map *)

\* the key tuple whose AddOrUpdate the step completes
Ingested(K) == hist'.calls[K] = hist.calls[K] + 1

\* C33: a counter of key K is in the live map exactly when K was ingested
\* since the map was last cleared, its n is the number of those ingests, and
\* an ingest of K adds one to the n of K and leaves every other counter as
\* it was.
C33_LiveMembership ==
    /\ [](\A K \in KeyTuples :
            LET key == MakeKey(K[1], K[2], K[3], K[4])
            IN  /\ key \in DOMAIN entries <=> hist.live[K] >= 1
                /\ LiveN(K) = hist.live[K])
    /\ [](DOMAIN entries \subseteq {MakeKey(K[1], K[2], K[3], K[4]) : K \in KeyTuples})
    /\ [][\A K \in KeyTuples :
            Ingested(K) =>
                /\ LiveN(K)' = LiveN(K) + 1
                /\ \A J \in KeyTuples \ {K} : LiveN(J)' = LiveN(J)
                /\ \A key \in DOMAIN entries \ {MakeKey(K[1], K[2], K[3], K[4])} :
                       key \in DOMAIN entries' /\ entries'[key] = entries[key]]_vars

\* a counter ingested twice beside a counter of another key ingested once,
\* after a flush has cleared the map
C33_Witness ==
    /\ hist.flushes >= 1
    /\ \E K, J \in KeyTuples :
          /\ K # J
          /\ LiveN(K) = 2 /\ hist.live[K] = 2 /\ hist.calls[K] > 2
          /\ LiveN(J) = 1

-----------------------------------------------------------------------------
(* A flush in the durable table *)

\* the step on which FlushToDb of f reaches its return, by commit or by error
FlushEnds(f) == pc[f] \in {"open", "begin", "prepare", "exec"} /\ pc'[f] = "ret"

\* C34: a flush is all-or-nothing in the durable table.  On the step that
\* ends FlushToDb the table either receives the upsert of every counter of
\* the live map or stays as it was.
C34_FlushAllOrNothing ==
    [][\A f \in Flushers :
          FlushEnds(f) =>
              \/ db' = ApplyAll(db, entries, DOMAIN entries)
              \/ db' = db]_vars

-----------------------------------------------------------------------------
(* Retention: CleanupOldData on a table whose bucket_ts texts were written *)
(* by the same process in its local zone.  Instants are seconds since the  *)
(* UTC midnight of the 20th of a month of 31 days.                         *)

MaxRetention == 2   \* retention days

\* the instant at which the local zone changes its offset: 01:00 UTC of the 25th
OffsetChange == 5 * SecondsPerDay + 3600

\* time.UTC, and a local zone two hours ahead of UTC that falls back to one
\* hour ahead at OffsetChange
Locations ==
    {[name |-> "UTC", before |-> 0, after |-> 0],
     [name |-> "Local", before |-> 2 * 3600, after |-> 3600]}

\* Location.lookup(unix): the offset in force at the instant
ZoneOffset(loc, unix) == IF unix < OffsetChange THEN loc.before ELSE loc.after

\* time.Date(..., loc) for the wall-clock reading `wall` (the reading taken as
\* UTC seconds): the offset found for the reading is kept when the instant it
\* gives lies in the same period of the zone, else the offset at that instant
Date(loc, wall) ==
    LET offset == ZoneOffset(loc, wall)
        utc == wall - offset
    IN  IF offset = 0 THEN wall
        ELSE IF (utc < OffsetChange) = (wall < OffsetChange) THEN utc
        ELSE wall - ZoneOffset(loc, utc)

\* t.Format(time.RFC3339) of an instant in the zone loc
FormatZoned(loc, t) ==
    LET offset == ZoneOffset(loc, t)
        wall == t + offset
        f == TimeFields(wall)
    IN  "2026-10-" \o Pad2(20 + wall \div SecondsPerDay)
            \o "T" \o Pad2(f[1]) \o ":" \o Pad2(f[2]) \o ":" \o Pad2(f[3])
            \o (IF offset = 0 THEN "Z" ELSE "+" \o Pad2(offset \div 3600) \o ":00")

RECURSIVE StringLess(_, _)
\* a < b on TEXT values: SQLite's BINARY collation compares the bytes
StringLess(a, b) ==
    IF b = "" THEN FALSE
    ELSE IF a = "" THEN TRUE
    ELSE IF Head(a) = Head(b) THEN StringLess(Tail(a), Tail(b))
    ELSE Index("+-0123456789:TZ", Head(a)) < Index("+-0123456789:TZ", Head(b))

\* cutoffDate := time.Now().AddDate(0, 0, -retentionDays).Format(time.RFC3339)
\* DELETE FROM log_stats WHERE bucket_ts < cutoffDate
CleanupOldData(table, loc, t, retentionDays) ==
    LET wall == t + ZoneOffset(loc, t)
        cutoffDate == FormatZoned(loc, Date(loc, wall - retentionDays * SecondsPerDay))
    IN  [rk \in {r \in DOMAIN table : ~StringLess(r[2], cutoffDate)} |-> table[rk]]

\* bucket starts of the rows: noon of the 24th, 00:30 and 01:10 UTC of the
\* 25th (either side of the offset change), noon of the 25th, 00:30 of the 26th
RowInstants ==
    {4 * SecondsPerDay + 12 * 3600, 5 * SecondsPerDay + 30 * 60, 5 * SecondsPerDay + 70 * 60,
     5 * SecondsPerDay + 12 * 3600, 6 * SecondsPerDay + 30 * 60}

\* instants of the maintenance run: 01:10 UTC and noon of the 26th, 00:20 of the 27th
CleanupInstants ==
    {6 * SecondsPerDay + 70 * 60, 6 * SecondsPerDay + 12 * 3600, 7 * SecondsPerDay + 20 * 60}

\* the table a process in zone loc has written for the buckets S
TableOf(loc, S) ==
    [rk \in {<<"h1", FormatZoned(loc, b), "INFO", "app.A">> : b \in S} |->
        [n |-> 2, bucket_duration_s |-> BucketSizeS, first_seen_ts |-> rk[2]]]

RetentionInit ==
    /\ now = StartTime
    /\ entries = EmptyMap
    /\ mu = NoLock
    /\ pc = InitPc
    /\ tx = [f \in Flushers |-> NoTx]
    /\ ret = [f \in Flushers |-> "none"]
    /\ snap = [rows |-> {}, afterFlush |-> FALSE]
    /\ hist = InitHist
    /\ HubInit
    /\ \E loc \in Locations, S \in SUBSET RowInstants, t \in CleanupInstants,
          retentionDays \in 1..MaxRetention :
          /\ db = TableOf(loc, S)
          /\ fn = [op |-> "CleanupOldData", loc |-> loc, now |-> t,
                   retentionDays |-> retentionDays, before |-> TableOf(loc, S),
                   done |-> FALSE, err |-> "none"]

\* CleanupOldData(dbPath, retentionDays), called by the maintenance goroutine:
\* sql.Open or db.Exec may fail, and then no row is deleted
RunCleanup(opened, executed) ==
    /\ fn.op = "CleanupOldData" /\ ~fn.done
    /\ IF opened /\ executed
       THEN /\ db' = CleanupOldData(db, fn.loc, fn.now, fn.retentionDays)
            /\ fn' = [fn EXCEPT !.done = TRUE, !.err = "nil"]
       ELSE /\ db' = db
            /\ fn' = [fn EXCEPT !.done = TRUE, !.err = "err"]
    /\ UNCHANGED <<now, entries, mu, pc, tx, ret, snap, hist, hubVars>>

RetentionNext == \E opened, executed \in BOOLEAN : RunCleanup(opened, executed)

\* the instant a bucket_ts text denotes
InstantOf(text) ==
    CHOOSE t \in RowInstants : \E loc \in Locations : FormatZoned(loc, t) = text

\* C32: after a cleanup run at time T with a retention window of W days the
\* table has no row whose bucket start is earlier than T - W, and every row
\* whose bucket start is at or after T - W is still there with its fields
\* unchanged.
C32_Retention ==
    fn.op = "CleanupOldData" /\ fn.done /\ fn.err = "nil" =>
        LET cutoff == fn.now - fn.retentionDays * SecondsPerDay
        IN  /\ \A rk \in DOMAIN db : InstantOf(rk[2]) >= cutoff
            /\ \A rk \in DOMAIN fn.before :
                  InstantOf(rk[2]) >= cutoff => rk \in DOMAIN db /\ db[rk] = fn.before[rk]

-----------------------------------------------------------------------------
(* Keys of the live map and of the aggregate groups, for field values that *)
(* contain the separator: two lines handled one after the other, then an    *)
(* aggregate query over the live map.                                       *)

\* the text of the bucket of the process start
FirstBucketTS == FormatRFC3339(getBucketTime(StartTime, BucketSizeS))

\* the fields handleJsonLogEntry takes from a line; timerID is what the
\* pattern timedObjectId=([^\s\)]+) finds in the message, "Unknown" if nothing
JsonLines ==
    {[hostName |-> h, loggerName |-> l, level |-> v, timerID |-> id] :
        h \in {"a", "a:b", "a:" \o FirstBucketTS},
        l \in {"c", "b:c", "timer"},
        v \in {"INFO", "x:INFO", FirstBucketTS \o ":INFO"},
        id \in {"Unknown", "Unknown:x"}}

\* handle timer loggers: loggerName = loggerName + ":" + timerID
TimerLogger(loggerName, timerID) ==
    IF ~Contains(ToLower(loggerName), "peter") /\ Contains(ToLower(loggerName), "timer")
    THEN loggerName \o ":" \o timerID
    ELSE loggerName

\* the arguments handleJsonLogEntry passes to AddOrUpdate for a line
IngestOf(line) == <<line.hostName, line.level, TimerLogger(line.loggerName, line.timerID)>>

KeyInit ==
    /\ StoreInit
    /\ HubInit
    /\ fn \in {[op |-> "handleJsonLogEntry", lines |-> <<l1, l2>>, handled |-> 0,
                aggregated |-> FALSE, aggs |-> <<>>] : l1, l2 \in JsonLines}

\* handleJsonLogEntry(line) for the next line: s.AddOrUpdate(hostName, level, loggerName)
HandleJsonLogEntry ==
    /\ fn.op = "handleJsonLogEntry" /\ fn.handled < Len(fn.lines)
    /\ CanLock(mu)
    /\ LET a == IngestOf(fn.lines[fn.handled + 1])
       IN  entries' = AddOrUpdateEntries(entries, a[1], a[2], a[3], now)
    /\ fn' = [fn EXCEPT !.handled = @ + 1]
    /\ UNCHANGED <<now, db, mu, pc, tx, ret, snap, hist, hubVars>>

\* QueryAggregatedStatsOptimized over the live map alone, no other filter
LiveOnly ==
    [Level |-> "", LoggerRegex |-> "", StartTime |-> Nil, EndTime |-> Nil,
     MaxResults |-> 0, IncludeMemory |-> TRUE, IncludeDB |-> FALSE]

AggregateLive ==
    /\ fn.op = "handleJsonLogEntry" /\ fn.handled = Len(fn.lines) /\ ~fn.aggregated
    /\ CanRLock(mu)
    /\ \E r \in QueryAggregatedStatsOptimized(LiveOnly) :
          fn' = [fn EXCEPT !.aggregated = TRUE, !.aggs = r.aggs]
    /\ UNCHANGED <<storeVars, hubVars>>

KeyNext ==
    \/ HandleJsonLogEntry
    \/ AggregateLive

\* C37: two ingests whose (host, logger, level, bucket_start) differ update
\* two different live counters, whatever the strings, and two counters whose
\* (host, bucket_start, level) differ are never put into one aggregate group.
C37_KeyInjective ==
    fn.op = "handleJsonLogEntry" /\ fn.handled = 2 =>
        LET a == IngestOf(fn.lines[1])
            b == IngestOf(fn.lines[2])
            stats == {entries[k] : k \in DOMAIN entries}
        IN  /\ a # b => Cardinality(DOMAIN entries) = 2
            /\ fn.aggregated =>
                  Len(fn.aggs) = Cardinality({<<x.HostName, x.BucketTS, x.Level>> : x \in stats})

-----------------------------------------------------------------------------
(* A query over the live map and the durable table while the store ingests *)
(* and flushes: the live read under RLock, then the database read, with    *)
(* every database call of the flush succeeding.                            *)

\* no filter, both sides included
BothSides == [LiveOnly EXCEPT !.IncludeDB = TRUE]

BoundaryInit ==
    /\ StoreInit
    /\ HubInit
    /\ fn \in {[op |-> op, filter |-> BothSides, read |-> "none", memory |-> <<>>,
                done |-> FALSE, result |-> <<>>, dbErr |-> "none",
                atLive |-> InitHist.calls, atDurable |-> InitHist.calls] :
                op \in {"QueryLogStats", "QueryAggregatedStatsOptimized"}}

\* if filter.IncludeMemory { s.mu.RLock(); copy every counter; s.mu.RUnlock() }
\* (for the aggregate: the inner QueryLogStats over the live map and aggregateStats)
QueryReadLive ==
    /\ Alive
    /\ fn.op \in {"QueryLogStats", "QueryAggregatedStatsOptimized"} /\ fn.read = "none"
    /\ CanRLock(mu)
    /\ \E m \in QueryLogStats([fn.filter EXCEPT !.IncludeDB = FALSE]) :
          IF fn.op = "QueryLogStats"
          THEN fn' = [fn EXCEPT !.read = "live", !.memory = m.stats, !.atLive = hist.calls]
          ELSE \E memoryAgg \in aggregateStats(m.stats) :
                  fn' = [fn EXCEPT !.read = "live", !.memory = memoryAgg, !.atLive = hist.calls]
    /\ UNCHANGED <<storeVars, hubVars>>

\* if filter.IncludeDB { queryDatabaseWithFilter / queryAggregatedFromDB }, then
\* the in-process filter and limit, or mergeAggregates
QueryReadDurable ==
    /\ Alive
    /\ fn.op \in {"QueryLogStats", "QueryAggregatedStatsOptimized"} /\ fn.read = "live"
    /\ IF fn.op = "QueryLogStats"
       THEN \E r \in queryDatabaseWithFilter(fn.filter) :
               LET Keep(stat) == PassesFilter(fn.filter, stat)
                   allStats == fn.memory \o (IF r.err = "nil" THEN r.stats ELSE <<>>)
               IN  fn' = [fn EXCEPT !.read = "durable", !.done = TRUE, !.dbErr = r.err,
                                    !.result = Limit(SelectSeq(allStats, Keep), fn.filter.MaxResults),
                                    !.atDurable = hist.calls]
       ELSE \E r \in queryAggregatedFromDB(fn.filter) :
               \E merged \in mergeAggregates(fn.memory \o (IF r.err = "nil" THEN r.aggs ELSE <<>>)) :
                   fn' = [fn EXCEPT !.read = "durable", !.done = TRUE, !.dbErr = r.err,
                                    !.result = merged, !.atDurable = hist.calls]
    /\ UNCHANGED <<storeVars, hubVars>>

BoundaryNext ==
    \/ hist.ingests < MaxLines /\ AddOrUpdateLock("conn")
    \/ \E h \in Hosts, v \in Levels, l \in Loggers : AddOrUpdate("conn", h, v, l)
    \/ FlushLock("ticker")
    \/ FlushOpen("ticker", TRUE)
    \/ FlushBegin("ticker", TRUE)
    \/ FlushPrepare("ticker", TRUE)
    \/ \E k \in tx["ticker"].todo : FlushExec("ticker", k, TRUE)
    \/ FlushCommit("ticker", TRUE)
    \/ FlushReturn("ticker")
    \/ QueryReadLive
    \/ QueryReadDurable

RECURSIVE SumRowsN(_, _)
\* the sum of n over the rows of a list that carry the key tuple K
SumRowsN(rows, K) ==
    IF rows = <<>> THEN 0
    ELSE LET x == Head(rows)
         IN  (IF <<x.HostName, x.Logger, x.Level, x.BucketTS>> = K THEN x.N ELSE 0)
                 + SumRowsN(Tail(rows), K)

RECURSIVE SumGroupsN(_, _)
\* the sum of total_n over the aggregates of a list that carry the group g
SumGroupsN(aggs, g) ==
    IF aggs = <<>> THEN 0
    ELSE LET x == Head(aggs)
         IN  (IF GroupOf(x) = g THEN x.TotalCount ELSE 0) + SumGroupsN(Tail(aggs), g)

RECURSIVE SumCalls(_, _)
\* the ingests counted in calls for the key tuples of S
SumCalls(calls, S) ==
    IF S = {} THEN 0
    ELSE LET K == CHOOSE x \in S : TRUE IN calls[K] + SumCalls(calls, S \ {K})

\* the key tuples of the group (host, bucket_start, level)
TuplesOf(g) == {K \in KeyTuples : <<K[1], K[4], K[3]>> = g}

\* C36: no double counting across the live/durable boundary.  When a query
\* over both sides has returned and its database read succeeded, the sum of
\* n over the returned rows of a key (for Aggregate: the total_n of a group)
\* lies between the ingests of the key (of the group's keys) completed before
\* the live read and those completed before the durable read, also when a
\* flush ran between the two reads.
C36_NoDoubleCounting ==
    /\ fn.op = "QueryLogStats" /\ fn.done /\ fn.dbErr = "nil" =>
          \A K \in KeyTuples :
              /\ SumRowsN(fn.result, K) >= fn.atLive[K]
              /\ SumRowsN(fn.result, K) <= fn.atDurable[K]
    /\ fn.op = "QueryAggregatedStatsOptimized" /\ fn.done /\ fn.dbErr = "nil" =>
          \A g \in {<<K[1], K[4], K[3]>> : K \in KeyTuples} :
              /\ SumGroupsN(fn.result, g) >= SumCalls(fn.atLive, TuplesOf(g))
              /\ SumGroupsN(fn.result, g) <= SumCalls(fn.atDurable, TuplesOf(g))

-----------------------------------------------------------------------------
(* Teardown of a session: clients connect, entries are broadcast, sockets  *)
(* fail on the read or the write side, and the hub loop keeps running.     *)

MaxOffers == 1      \* entries handed to BroadcastLog

\* writePump: conn.WriteMessage on a socket that has been closed returns an error
WriteFailClosed(c) ==
    /\ ~sess[c].conn
    /\ WriteFrame(c, FALSE)

TeardownNext ==
    \/ \E c \in Clients : Connect(c)
    \/ \E c \in Clients : HubRecvRegister(c)
    \/ registerClient
    \/ \E c \in Clients : ReadFail(c)
    \/ \E c \in Clients : HubRecvUnregister(c)
    \/ unregisterClient
    \/ \E level \in RecordLevels : hh.records < MaxOffers /\ BroadcastLog(level)
    \/ HubRecvBroadcast
    \/ broadcastMessage
    \/ \E t \in tasks : ProcessMessage(t[1], t[2])
    \/ \E c \in Clients, ok \in BOOLEAN : WriteFrame(c, ok)
    \/ \E c \in Clients : WriteClose(c)

\* Run is a goroutine of its own and its select takes a ready case; a read or
\* a write on a closed socket returns its error, and a receive from a closed
\* and drained channel returns at once.  A write on an open socket may block
\* for good.
TeardownFairness ==
    /\ \A c \in Clients : WF_vars(HubRecvRegister(c))
    /\ \A c \in Clients : WF_vars(HubRecvUnregister(c))
    /\ WF_vars(registerClient)
    /\ WF_vars(unregisterClient)
    /\ WF_vars(HubRecvBroadcast)
    /\ WF_vars(broadcastMessage)
    /\ \A c \in Clients : WF_vars(ReadFailClosed(c))
    /\ \A c \in Clients : WF_vars(WriteFailClosed(c))
    /\ \A c \in Clients : WF_vars(WriteClose(c))

\* the read of c's socket has failed, or the socket has been closed
SocketDown(c) ==
    \/ sess[c].st = "unregistering"
    \/ sess[c].st = "running" /\ ~sess[c].conn

\* c is out of the hub's set, its send channel is closed, both pumps have returned
TornDown(c) ==
    /\ c \notin clients
    /\ sess[c].closed
    /\ sess[c].st = "gone"
    /\ sess[c].wp = "done"

\* C35: once a session's socket read fails or its socket is closed, then,
\* as long as the hub loop keeps running (the process has not panicked), the
\* session is eventually out of the hub's set with its send channel closed
\* and both pumps terminated.
C35_TeardownCompletes ==
    \A c \in Clients : SocketDown(c) ~> (TornDown(c) \/ crashed)

\* a registered session torn down after its write pump hit a write error, and
\* a refused session torn down, with the process still running
C35_Witness ==
    /\ ~crashed
    /\ \E c \in Clients : TornDown(c) /\ c \in hh.refused
    /\ \E c \in Clients : TornDown(c) /\ c \notin hh.refused /\ hh.closes[c] = 1

-----------------------------------------------------------------------------
(* A session under concurrent use, one statement at a time: readPump runs  *)
(* UpdateSubscription, a ProcessMessage goroutine started by the hub reads *)
(* the session's fields, and the handleBatchTimeout goroutines go round    *)
(* their loop.  None of the fields subscription, filter, rateLimiter and   *)
(* batchTimer is guarded by a lock.  fn holds the position of each call,   *)
(* the timers created so far and, per field, the update that last wrote it.*)

MaxUpdates == 2      \* subscribe and update frames handled
MaxRaceOffers == 1   \* ProcessMessage goroutines started

\* batching and a rate limit on, and batching and the rate limit off
RaceSubs ==
    {[BatchSub EXCEPT !.MaxMessagesPerSecond = MaxRate],
     [GetDefaultSubscription EXCEPT !.Levels = <<"INFO">>]}

RaceInit ==
    /\ StoreInit
    /\ clients = {"c1"}
    /\ broadcast = <<>>
    /\ hub = [pc |-> "select", cur |-> "none"]
    /\ sess = [c \in Clients |->
                 IF c = "c1"
                 THEN [NewSession EXCEPT !.st = "running", !.wp = "running", !.conn = TRUE]
                 ELSE NewSession]
    /\ tasks = {}
    /\ crashed = FALSE
    /\ hh = InitHH
    /\ fn = [op |-> "session",
             updates |-> 0,                 \* UpdateSubscription calls begun
             upd |-> [pc |-> "idle"],       \* the UpdateSubscription in progress
             gen |-> [subscription |-> 0, filter |-> 0, rateLimiter |-> 0],
             offered |-> 0,                 \* ProcessMessage goroutines begun
             offer |-> [pc |-> "none", gens |-> <<>>],
             timers |-> <<>>,               \* "armed", "fired" (a value waits in C), "idle", "stopped"
             flushers |-> <<>>,             \* the handleBatchTimeout goroutines
             nilTimer |-> FALSE]            \* a goroutine dereferenced a nil batchTimer

\* filter, err := NewMessageFilter(sub); c.subscription = sub
UpdateAssignSubscription(c, sub) ==
    /\ ~crashed
    /\ sess[c].st = "running" /\ sess[c].conn
    /\ fn.upd.pc = "idle"
    /\ fn.updates < MaxUpdates
    /\ ~NewMessageFilter(sub).err
    /\ sess' = [sess EXCEPT ![c].subscription = sub]
    /\ fn' = [fn EXCEPT !.updates = @ + 1,
                        !.upd = [pc |-> "filter", sub |-> sub],
                        !.gen.subscription = fn.updates + 1]
    /\ UNCHANGED <<storeVars, clients, broadcast, hub, tasks, crashed, hh>>

\* c.filter = filter
UpdateAssignFilter(c) ==
    /\ ~crashed
    /\ fn.upd.pc = "filter"
    /\ sess' = [sess EXCEPT ![c].filter = NewMessageFilter(fn.upd.sub).filter]
    /\ fn' = [fn EXCEPT !.upd.pc = "limiter", !.gen.filter = fn.updates]
    /\ UNCHANGED <<storeVars, clients, broadcast, hub, tasks, crashed, hh>>

\* c.rateLimiter = rate.NewLimiter(...) or nil
UpdateAssignLimiter(c) ==
    /\ ~crashed
    /\ fn.upd.pc = "limiter"
    /\ sess' = [sess EXCEPT ![c].rateLimiter =
                   IF fn.upd.sub.MaxMessagesPerSecond > 0
                   THEN NewLimiter(fn.upd.sub.MaxMessagesPerSecond)
                   ELSE Nil]
    /\ fn' = [fn EXCEPT !.upd.pc = "batching", !.gen.rateLimiter = fn.updates]
    /\ UNCHANGED <<storeVars, clients, broadcast, hub, tasks, crashed, hh>>

\* the batching branch of UpdateSubscription, its return, and sendAck
UpdateBatching(c) ==
    /\ ~crashed
    /\ fn.upd.pc = "batching"
    /\ LET s == sess[c]
           start == fn.upd.sub.BatchTimeoutMs > 0 /\ s.batchTimer = Nil
           stop == fn.upd.sub.BatchTimeoutMs <= 0 /\ s.batchTimer # Nil
           s1 == IF start THEN [s EXCEPT !.batchTimer = [id |-> Len(fn.timers) + 1]]
                 ELSE IF stop THEN [s EXCEPT !.batchTimer = Nil]
                 ELSE s
       IN  /\ fn' = [fn EXCEPT
                       !.upd = [pc |-> "idle"],
                       !.timers = IF start THEN Append(@, "armed")
                                  ELSE IF stop /\ @[s.batchTimer.id] = "armed"
                                  THEN [@ EXCEPT ![s.batchTimer.id] = "stopped"]
                                  ELSE @,
                       !.flushers = IF start THEN Append(@, [pc |-> "check", timer |-> 0]) ELSE @]
           /\ SendOn(c, s1, AckFrame("subscribed"), hh)
    /\ UNCHANGED <<storeVars, clients, broadcast, hub, tasks>>

\* go client.ProcessMessage(raw): if c.filter != nil && !c.filter.Matches(raw) { return }
OfferMatch(c, level) ==
    /\ ~crashed
    /\ fn.offer.pc \in {"none", "done"}
    /\ fn.offered < MaxRaceOffers
    /\ LET raw == [RawLogEntry(level) EXCEPT !.seq = fn.offered + 1]
           filter == sess[c].filter
       IN  fn' = [fn EXCEPT
                    !.offered = @ + 1,
                    !.offer = IF filter # Nil /\ ~Matches(filter, raw)
                              THEN [pc |-> "done", gens |-> <<fn.gen.filter>>]
                              ELSE [pc |-> "limit", raw |-> raw, gens |-> <<fn.gen.filter>>]]
    /\ UNCHANGED <<storeVars, hubVars>>

\* if c.rateLimiter != nil { if !c.rateLimiter.Allow() { c.messagesDropped++; return } }
OfferAllow(c) ==
    /\ ~crashed
    /\ fn.offer.pc = "limit"
    /\ LET lim == sess[c].rateLimiter
           gens == Append(fn.offer.gens, fn.gen.rateLimiter)
       IN  IF lim # Nil /\ ~Allow(lim)
           THEN /\ sess' = [sess EXCEPT ![c].messagesDropped = @ + 1]
                /\ fn' = [fn EXCEPT !.offer = [pc |-> "done", gens |-> gens]]
           ELSE /\ sess' = IF lim # Nil
                           THEN [sess EXCEPT ![c].rateLimiter.tokens = @ - 1]
                           ELSE sess
                /\ fn' = [fn EXCEPT !.offer.pc = "transform", !.offer.gens = gens]
    /\ UNCHANGED <<storeVars, clients, broadcast, hub, tasks, crashed, hh>>

\* msg := TransformMessage(raw, c.filter)
OfferTransform(c) ==
    /\ ~crashed
    /\ fn.offer.pc = "transform"
    /\ fn' = [fn EXCEPT !.offer.pc = "route",
                        !.offer.gens = Append(@, fn.gen.filter)]
    /\ UNCHANGED <<storeVars, hubVars>>

\* if c.subscription.BatchTimeoutMs > 0 { c.addToBatch(data) } else { c.sendMessage(data) }
OfferRoute(c) ==
    /\ ~crashed
    /\ fn.offer.pc = "route"
    /\ fn' = [fn EXCEPT !.offer = [pc |-> "done",
                                   gens |-> Append(fn.offer.gens, fn.gen.subscription)]]
    /\ LET data == [type |-> "log", seq |-> fn.offer.raw.seq]
       IN  IF sess[c].subscription.BatchTimeoutMs > 0
           THEN /\ sess' = [sess EXCEPT ![c].batchBuffer = Append(@, data)]
                /\ UNCHANGED <<hh, crashed>>
           ELSE SendOn(c, sess[c], data, hh)
    /\ UNCHANGED <<storeVars, clients, broadcast, hub, tasks>>

\* the timer's duration elapses: a value is sent on its channel C
TimerFire(i) ==
    /\ ~crashed
    /\ i \in DOMAIN fn.timers
    /\ fn.timers[i] = "armed"
    /\ fn' = [fn EXCEPT !.timers[i] = "fired"]
    /\ UNCHANGED <<storeVars, hubVars>>

\* handleBatchTimeout: if c.batchTimer == nil { return }
FlusherCheck(c, g) ==
    /\ ~crashed
    /\ g \in DOMAIN fn.flushers
    /\ fn.flushers[g].pc = "check"
    /\ fn' = [fn EXCEPT !.flushers[g].pc = IF sess[c].batchTimer = Nil THEN "exit" ELSE "deref"]
    /\ UNCHANGED <<storeVars, hubVars>>

\* handleBatchTimeout: the operand c.batchTimer.C of the receive; a nil
\* batchTimer is a nil pointer dereference
FlusherDeref(c, g) ==
    /\ ~crashed
    /\ g \in DOMAIN fn.flushers
    /\ fn.flushers[g].pc = "deref"
    /\ IF sess[c].batchTimer = Nil
       THEN /\ crashed' = TRUE
            /\ fn' = [fn EXCEPT !.nilTimer = TRUE]
       ELSE /\ fn' = [fn EXCEPT !.flushers[g] = [pc |-> "wait", timer |-> sess[c].batchTimer.id]]
            /\ UNCHANGED crashed
    /\ UNCHANGED <<storeVars, clients, broadcast, hub, sess, tasks, hh>>

\* handleBatchTimeout: <-c.batchTimer.C returns with the value the timer sent
FlusherWake(c, g) ==
    /\ ~crashed
    /\ g \in DOMAIN fn.flushers
    /\ fn.flushers[g].pc = "wait"
    /\ fn.timers[fn.flushers[g].timer] = "fired"
    /\ fn' = [fn EXCEPT !.flushers[g].pc = "flush",
                        !.timers[fn.flushers[g].timer] = "idle"]
    /\ UNCHANGED <<storeVars, hubVars>>

\* handleBatchTimeout: c.flushBatch()
FlusherFlush(c, g) ==
    /\ ~crashed
    /\ g \in DOMAIN fn.flushers
    /\ fn.flushers[g].pc = "flush"
    /\ fn' = [fn EXCEPT !.flushers[g].pc = "reset"]
    /\ flushBatch(c, sess[c], hh)
    /\ UNCHANGED <<storeVars, clients, broadcast, hub, tasks>>

\* handleBatchTimeout: if c.subscription.BatchTimeoutMs > 0 { c.batchTimer.Reset(...) } else { return }
FlusherReset(c, g) ==
    /\ ~crashed
    /\ g \in DOMAIN fn.flushers
    /\ fn.flushers[g].pc = "reset"
    /\ IF sess[c].subscription.BatchTimeoutMs <= 0
       THEN /\ fn' = [fn EXCEPT !.flushers[g].pc = "exit"]
            /\ UNCHANGED crashed
       ELSE IF sess[c].batchTimer = Nil
       THEN /\ crashed' = TRUE
            /\ fn' = [fn EXCEPT !.nilTimer = TRUE]
       ELSE /\ fn' = [fn EXCEPT !.flushers[g].pc = "check",
                                !.timers[sess[c].batchTimer.id] = "armed"]
            /\ UNCHANGED crashed
    /\ UNCHANGED <<storeVars, clients, broadcast, hub, sess, tasks, hh>>

\* writePump takes a frame from c.send and writes it
WriteNext(c) ==
    /\ fn.op = "session"
    /\ WriteFrame(c, TRUE)

RaceNext ==
    \/ \E sub \in RaceSubs : UpdateAssignSubscription("c1", sub)
    \/ UpdateAssignFilter("c1")
    \/ UpdateAssignLimiter("c1")
    \/ UpdateBatching("c1")
    \/ \E level \in RecordLevels : OfferMatch("c1", level)
    \/ OfferAllow("c1")
    \/ OfferTransform("c1")
    \/ OfferRoute("c1")
    \/ \E i \in 1..MaxUpdates : TimerFire(i)
    \/ \E g \in 1..MaxUpdates : FlusherCheck("c1", g)
    \/ \E g \in 1..MaxUpdates : FlusherDeref("c1", g)
    \/ \E g \in 1..MaxUpdates : FlusherWake("c1", g)
    \/ \E g \in 1..MaxUpdates : FlusherFlush("c1", g)
    \/ \E g \in 1..MaxUpdates : FlusherReset("c1", g)
    \/ WriteNext("c1")

\* readPump and every goroutine keep running, an armed timer fires, and the
\* write pump writes while the socket takes frames; frames and entries arrive
\* as the peers please
RaceFairness ==
    /\ WF_vars(UpdateAssignFilter("c1"))
    /\ WF_vars(UpdateAssignLimiter("c1"))
    /\ WF_vars(UpdateBatching("c1"))
    /\ WF_vars(OfferAllow("c1"))
    /\ WF_vars(OfferTransform("c1"))
    /\ WF_vars(OfferRoute("c1"))
    /\ WF_vars(WriteNext("c1"))
    /\ \A i \in 1..MaxUpdates : WF_vars(TimerFire(i))
    /\ \A g \in 1..MaxUpdates :
          /\ WF_vars(FlusherCheck("c1", g))
          /\ WF_vars(FlusherDeref("c1", g))
          /\ WF_vars(FlusherWake("c1", g))
          /\ WF_vars(FlusherFlush("c1", g))
          /\ WF_vars(FlusherReset("c1", g))

\* C38: an offer that runs concurrently with an update uses a filter (for
\* matching and for the transform), a rate limiter and a batching setting
\* that all come from one subscription: every field the finished
\* ProcessMessage read was last written by the same update.
C38_OfferSeesOneSubscription ==
    fn.op = "session" /\ fn.offer.pc = "done" =>
        \A i, j \in 1..Len(fn.offer.gens) : fn.offer.gens[i] = fn.offer.gens[j]

\* C39: no batched record is stranded.  While the session stays open, a
\* non-empty batch buffer is eventually emptied by a flush (which puts the
\* batch frame on the send channel or counts it as dropped).
C39_NoStrandedRecord ==
    (fn.op = "session" /\ sess["c1"].batchBuffer # <<>>)
        ~> (sess["c1"].batchBuffer = <<>> \/ crashed)

\* the handleBatchTimeout goroutines that are running or wait on a timer
\* that can still fire
LiveFlushers ==
    {g \in DOMAIN fn.flushers :
        \/ fn.flushers[g].pc \in {"check", "deref", "flush", "reset"}
        \/ fn.flushers[g].pc = "wait" /\ fn.timers[fn.flushers[g].timer] \in {"armed", "fired"}}

\* C40: whatever the sequence of updates and timer ticks, a session has at
\* most one batch flusher that is running or waiting on a timer that can
\* still fire, no flusher uses the batch timer after an update has cleared
\* it, and a flusher whose batching was disabled terminates.
C40_FlusherLifecycle ==
    /\ [](fn.op = "session" => Cardinality(LiveFlushers) <= 1)
    /\ [](fn.op = "session" => ~fn.nilTimer)
    /\ \A g \in 1..MaxUpdates :
          (fn.op = "session" /\ g \in DOMAIN fn.flushers /\ sess["c1"].batchTimer = Nil)
              ~> \/ crashed
                 \/ sess["c1"].batchTimer # Nil
                 \/ g \in DOMAIN fn.flushers /\ fn.flushers[g].pc = "exit"

-----------------------------------------------------------------------------
(* Specifications *)

Init == StoreInit /\ HubInit /\ fn = NoCall

Spec == Init /\ [][Next]_vars

SpecHub == Init /\ [][HubNext]_vars

SpecStalled == StalledInit /\ [][StalledNext]_vars /\ StalledFairness

SpecSession == SessionInit /\ [][SessionNext]_vars

SpecFilter == FilterInit /\ [][FilterNext]_vars

SpecQuery == QueryInit /\ [][QueryNext]_vars

SpecLife == Init /\ [][LifeNext]_vars

SpecBucket == BucketInit /\ [][BucketNext]_vars

SpecRetention == RetentionInit /\ [][RetentionNext]_vars

SpecKey == KeyInit /\ [][KeyNext]_vars

SpecBoundary == BoundaryInit /\ [][BoundaryNext]_vars

SpecTeardown == Init /\ [][TeardownNext]_vars /\ TeardownFairness

SpecRace == RaceInit /\ [][RaceNext]_vars /\ RaceFairness

====
